---- MODULE Spec2Model ----
(***************************************************************************)
(* Approval ledger of the Print & Pack blockchain integration.             *)
(*                                                                         *)
(* The ledger is a deployed contract (PrintPackSyncApproval, the strict    *)
(* variant, or SimpleApproval, the simplified one) reached through         *)
(* Web3BlockchainService.  The service is either the full web3 service     *)
(* (live / read-only / mock mode decided in its constructor) or the        *)
(* mock-only service of src/services.                                      *)
(***************************************************************************)
EXTENDS Integers, Sequences, FiniteSets, TLC

(***************************************************************************)
(* Bounds of the model.                                                    *)
(***************************************************************************)
\* transactions mined on the chain (one event is emitted per transaction)
MaxTx == 2
\* successful service-level inserts remembered in the call history
MaxInserts == 2
\* block timestamps (seconds) range over 1..MaxTime
MaxTime == 2
\* Math.random() draws of the mock are taken from 0..MaxRandom
MaxRandom == 1
\* automatic retries of recordSyncApproval explored per call
MaxRetries == 2

(***************************************************************************)
(* Strings of the program.                                                 *)
(***************************************************************************)
Undefined == "<undefined>"
Null == "<null>"
NullNumber == 0 - 1

TestId == "480e24ac73d48cd107ea16cd14798b89"
OtherMockId == "7f8e9d6c5b4a3210fedcba9876543210"

\* approval ids used by the callers of the model
ApprovalIdSet == {"A1", TestId, OtherMockId}

RequestTypes == {"gcp", "excel"}

\* The characters of the strings the program takes apart: the ids, for
\* String.prototype.substring, and the request ids and request types, for
\* toLowerCase and includes.
RequestChars == <<"r","e","q","u","e","s","t">>
TestRequestIdChars == <<"t","e","s","t","-">> \o RequestChars \o <<"-","i","d">>
RealRequestChars == <<"r","e","a","l","-">> \o RequestChars

StrChars(s) ==
  CASE s = "A1" -> <<"A", "1">>
    [] s = "" -> <<>>
    [] s = "R1" -> <<"R", "1">>
    [] s = "r1" -> <<"r", "1">>
    [] s = "gcp" -> <<"g", "c", "p">>
    [] s = "GCP" -> <<"G", "C", "P">>
    [] s = "excel" -> <<"e", "x", "c", "e", "l">>
    [] s = "test-request-id" -> TestRequestIdChars
    [] s = "test-request-id-1" -> TestRequestIdChars \o <<"-", "1">>
    [] s = "test-request-id-2" -> TestRequestIdChars \o <<"-", "2">>
    [] s = "real-request-id-1" -> RealRequestChars \o <<"-","i","d","-","1">>
    [] s = "real-request-id-2" -> RealRequestChars \o <<"-","i","d","-","2">>
    [] s = "real-request-A1" -> RealRequestChars \o <<"-", "A", "1">>
    [] s = TestId ->
         <<"4","8","0","e","2","4","a","c","7","3","d","4","8","c","d","1",
           "0","7","e","a","1","6","c","d","1","4","7","9","8","b","8","9">>
    [] s = OtherMockId ->
         <<"7","f","8","e","9","d","6","c","5","b","4","a","3","2","1","0",
           "f","e","d","c","b","a","9","8","7","6","5","4","3","2","1","0">>

RECURSIVE Join(_)
Join(cs) == IF cs = <<>> THEN "" ELSE Head(cs) \o Join(Tail(cs))

Min(a, b) == IF a < b THEN a ELSE b

\* String.prototype.toLowerCase, on the characters
LowerChar(c) ==
  CASE c = "A" -> "a" [] c = "C" -> "c" [] c = "G" -> "g"
    [] c = "P" -> "p" [] c = "R" -> "r" [] OTHER -> c

ToLowerCase(s) ==
  [i \in 1..Len(StrChars(s)) |-> LowerChar(StrChars(s)[i])]

\* hay.includes(needle), on the characters
Includes(hay, needle) ==
  \E i \in 0..(Len(hay) - Len(needle)) :
    SubSeq(hay, i + 1, i + Len(needle)) = needle

\* s.substring(a, b) for 0 <= a <= b
Substring(s, a, b) ==
  LET cs == StrChars(s)
      lo == Min(a, Len(cs))
      hi == Min(b, Len(cs))
  IN  Join(SubSeq(cs, lo + 1, hi))

(***************************************************************************)
(* The contracts.  Storage is the mapping `approvals` (every key reads as  *)
(* the zero struct until written) and the array `approvalIds`.             *)
(***************************************************************************)
ZeroApproval ==
  [requestId |-> "", requesterId |-> "", ownerId |-> "", requestType |-> "",
   licenceKey |-> "", timestamp |-> 0, isActive |-> FALSE]

SyncApproval(requestId, requesterId, ownerId, requestType, licenceKey, ts) ==
  [requestId |-> requestId, requesterId |-> requesterId, ownerId |-> ownerId,
   requestType |-> requestType, licenceKey |-> licenceKey, timestamp |-> ts,
   isActive |-> TRUE]

RevertExists == "Approval ID already exists"
RevertMissing == "Approval does not exist"
RevertInactive == "Approval is already inactive"
RevertIndex == "Index out of bounds"

\* A contract call yields [ok, revert, approvals, approvalIds, event].
NoEvent == [name |-> "", approvalId |-> "", others |-> {}]

Reverted(st, reason) ==
  [ok |-> FALSE, revert |-> reason, approvals |-> st.approvals,
   approvalIds |-> st.approvalIds, event |-> NoEvent]

\* PrintPackSyncApproval.recordApproval
StrictRecordApproval(st, approvalId, requestId, requesterId, ownerId, requestType, licenceKey, ts) ==
  IF Len(st.approvals[approvalId].requestId) # 0
  THEN Reverted(st, RevertExists)
  ELSE [ok |-> TRUE, revert |-> "",
        approvals |-> [st.approvals EXCEPT ![approvalId] =
           SyncApproval(requestId, requesterId, ownerId, requestType,
                        licenceKey, ts)],
        approvalIds |-> Append(st.approvalIds, approvalId),
        event |-> [name |-> "ApprovalRecorded", approvalId |-> approvalId,
                   others |-> {requesterId, ownerId, requestType}]]

\* SimpleApproval.recordApproval
SimpleRecordApproval(st, approvalId, requestId, requesterId, ownerId, requestType, licenceKey, ts) ==
  [ok |-> TRUE, revert |-> "",
   approvals |-> [st.approvals EXCEPT ![approvalId] =
      SyncApproval(requestId, requesterId, ownerId, requestType,
                   licenceKey, ts)],
   approvalIds |-> Append(st.approvalIds, approvalId),
   event |-> [name |-> "ApprovalRecorded", approvalId |-> approvalId,
              others |-> {requesterId, ownerId, requestType}]]

\* PrintPackSyncApproval.deactivateApproval
StrictDeactivateApproval(st, approvalId) ==
  IF ~(Len(st.approvals[approvalId].requestId) > 0)
  THEN Reverted(st, RevertMissing)
  ELSE IF ~st.approvals[approvalId].isActive
  THEN Reverted(st, RevertInactive)
  ELSE [ok |-> TRUE, revert |-> "",
        approvals |-> [st.approvals EXCEPT ![approvalId].isActive = FALSE],
        approvalIds |-> st.approvalIds,
        event |-> [name |-> "ApprovalDeactivated", approvalId |-> approvalId,
                   others |-> {}]]

\* SimpleApproval.deactivateApproval
SimpleDeactivateApproval(st, approvalId) ==
  [ok |-> TRUE, revert |-> "",
   approvals |-> [st.approvals EXCEPT ![approvalId].isActive = FALSE],
   approvalIds |-> st.approvalIds,
   event |-> [name |-> "ApprovalDeactivated", approvalId |-> approvalId,
              others |-> {}]]

\* getApproval of both contracts: the struct stored under the key
ContractGetApproval(st, approvalId) == st.approvals[approvalId]

\* getTotalApprovals of both contracts
ContractGetTotalApprovals(st) == Len(st.approvalIds)

\* getApprovalIdByIndex of both contracts (index is a uint256)
ContractGetApprovalIdByIndex(st, index) ==
  IF index < Len(st.approvalIds)
  THEN [ok |-> TRUE, revert |-> "", value |-> st.approvalIds[index + 1]]
  ELSE [ok |-> FALSE, revert |-> RevertIndex, value |-> ""]

(***************************************************************************)
(* State.                                                                  *)
(***************************************************************************)
VARIABLES
  env,          \* process environment read by the constructor and handlers
  contractKind, \* contract deployed at CONTRACT_ADDRESS: "strict" or "simple"
  serviceKind,  \* "web3" (full service) or "stub" (mock-only service)
  svc,          \* fields of the Web3BlockchainService instance
  approvals,    \* contract storage: mapping approvalId -> SyncApproval
  approvalIds,  \* contract storage: string[] approvalIds
  events,       \* event log of the contract, one entry per transaction
  now,          \* clock in seconds (block.timestamp, Date.now() / 1000)
  pending,      \* recordSyncApproval call waiting to re-enter itself
  result,       \* what the last completed service call returned
  hist,         \* call history: successful inserts and deactivations
  response,     \* what the last /search-approvals or /all-approvals request
                \* answered, while no transaction has followed it
  calls,        \* service calls in flight at once, one per caller
  keyCheck,     \* a private key and what the validators answered for it
  printPackSync, \* storage of the PrintPackSync contract
  syncHist      \* PrintPackSync: last transaction, successes, creators

vars == <<env, contractKind, serviceKind, svc, approvals, approvalIds,
          events, now, pending, result, hist, response, calls, keyCheck,
          printPackSync, syncHist>>

chainVars == <<approvals, approvalIds, events>>
configVars == <<env, contractKind, serviceKind>>
sideVars == <<keyCheck, printPackSync, syncHist>>

Ledger == [approvals |-> approvals, approvalIds |-> approvalIds]

(***************************************************************************)
(* Inputs.                                                                 *)
(***************************************************************************)
ApprovalData(approvalId, requestId, requesterId, ownerId, requestType, licenceKey) ==
  [approvalId |-> approvalId, requestId |-> requestId,
   requesterId |-> requesterId, ownerId |-> ownerId,
   requestType |-> requestType, licenceKey |-> licenceKey]

\* testData of testBlockchainIntegration
TestData ==
  ApprovalData(TestId, "test-request-id", "test-requester-id",
               "test-owner-id", "gcp", "test-licence-key")

\* approvalData objects handed to recordSyncApproval
ApprovalInputs ==
  { ApprovalData("A1", "R1", "U1", "U2", "gcp", "GS1-1"),
    ApprovalData("A1", "", "U3", "U2", "excel", Undefined),
    TestData }

NoData == ApprovalData("", "", "", "", "", "")

Networks == {"ganache", "sepolia"}
PrivateKeys == {"absent", "valid", "malformed"}

Environment(network, useMock, allowFallback, privateKey) ==
  [network |-> network, useMock |-> useMock,
   allowFallback |-> allowFallback, privateKey |-> privateKey]

\* the environments the service is started in: one or two for every way
\* the constructor can end
Environments ==
  { Environment("ganache", TRUE, FALSE, "absent"),
    Environment("sepolia", FALSE, FALSE, "valid"),
    Environment("sepolia", FALSE, TRUE, "valid"),
    Environment("sepolia", FALSE, FALSE, "absent"),
    Environment("sepolia", FALSE, TRUE, "absent"),
    Environment("sepolia", FALSE, TRUE, "malformed"),
    Environment("sepolia", FALSE, FALSE, "malformed"),
    Environment("sepolia", TRUE, FALSE, "valid") }

DefaultEnv == Environment("sepolia", FALSE, FALSE, "absent")

\* what the node answers to one request of the service
Faults == {"none", "network", "funds"}

(***************************************************************************)
(* Results of service calls.                                               *)
(***************************************************************************)
NoRecord ==
  [requestId |-> "", requesterId |-> "", ownerId |-> "", requestType |-> "",
   licenceKey |-> "", timestamp |-> 0, isActive |-> FALSE,
   transactionHash |-> Null, blockNumber |-> NullNumber]

BlankResult ==
  [op |-> "", approvalId |-> "", index |-> 0, success |-> FALSE,
   threw |-> FALSE, error |-> "", hasData |-> FALSE, data |-> NoRecord,
   transactionHash |-> "", blockNumber |-> NullNumber, value |-> 0,
   id |-> "", mock |-> FALSE]

\* error messages of the node as web3 reports them
RevertMessage(reason) ==
  "Returned error: VM Exception while processing transaction: revert "
     \o reason
NetworkMessage == "connect ECONNREFUSED"
FundsMessage == "insufficient funds for gas * price + value"
NoAccountMessage ==
  "No account available. Please check your private key configuration."
NoAddressMessage == "Cannot read properties of undefined (reading 'address')"
NegativeIndexMessage == "value out-of-bounds"

\* error.message.includes('insufficient funds')
IncludesInsufficientFunds(msg) == msg = FundsMessage

ReadOnlyError ==
  "Cannot record approval in read-only mode. Private key is invalid or not provided."
InsufficientFundsError == "Insufficient funds to pay for transaction gas fees"
RecordErrorPrefix == "Failed to record on blockchain: "
DeactivateErrorPrefix == "Failed to deactivate approval on blockchain: "
GetErrorPrefix == "Failed to get approval from blockchain: "
TotalErrorPrefix == "Failed to get total approvals from blockchain: "
IndexErrorPrefix == "Failed to get approval ID by index from blockchain: "

TxHash(n) == "0xtx" \o ToString(n)

(***************************************************************************)
(* Web3BlockchainService: construction.                                    *)
(***************************************************************************)
NewService ==
  [state |-> "new", mockMode |-> FALSE, readOnlyMode |-> FALSE,
   isGanache |-> FALSE, web3 |-> FALSE, account |-> "none"]

KeyFormatMessage == "Private key must be a 64-character hexadecimal string"
InvalidKeyMessage == "Invalid private key format: " \o KeyFormatMessage

\* Web3BlockchainService.validatePrivateKey: TRUE when the key is accepted
ValidatePrivateKey(key) == key = "valid"

\* error.message.includes('Private Key') on the constructor's errors
IncludesPrivateKey(msg) ==
  CASE msg = InvalidKeyMessage -> FALSE
    [] OTHER -> FALSE

\* the constructor with USE_MOCK_MODE read before the network tag
ConstructWeb3SimulateFirst(e) ==
  IF e.useMock
  THEN [NewService EXCEPT !.state = "ready", !.mockMode = TRUE,
                          !.isGanache = e.network = "ganache"]
  ELSE [NewService EXCEPT !.state = "ready", !.web3 = TRUE,
                          !.isGanache = e.network = "ganache",
                          !.readOnlyMode = e.network # "ganache"]

\* constructor of the full service, as a function of the environment
ConstructWeb3(e) ==
  LET ganache == e.network = "ganache"
      mock0 == IF ganache THEN FALSE ELSE e.useMock
      base == [NewService EXCEPT !.isGanache = ganache, !.mockMode = mock0]
  IN  IF ~ganache /\ mock0
      THEN [base EXCEPT !.state = "ready"]
      ELSE IF ganache
      THEN [base EXCEPT !.state = "ready", !.web3 = TRUE]
      ELSE IF e.privateKey = "absent"
      THEN [base EXCEPT !.state = "ready", !.web3 = TRUE,
                        !.readOnlyMode = TRUE]
      ELSE IF ValidatePrivateKey(e.privateKey)
      THEN [base EXCEPT !.state = "ready", !.web3 = TRUE, !.account = "key"]
      ELSE \* the catch block, error.message = InvalidKeyMessage
           IF IncludesPrivateKey(InvalidKeyMessage)
           THEN [base EXCEPT !.state = "ready", !.web3 = TRUE,
                             !.readOnlyMode = TRUE]
           ELSE IF e.allowFallback
           THEN [base EXCEPT !.state = "ready", !.web3 = TRUE,
                             !.mockMode = TRUE]
           ELSE [base EXCEPT !.state = "failed", !.web3 = TRUE]

\* constructor of the mock-only service: it only reads the environment
ConstructStub(e) == [NewService EXCEPT !.state = "ready"]

Constructor ==
  /\ svc.state = "new"
  /\ svc' = IF serviceKind = "web3" THEN ConstructWeb3(env)
                                    ELSE ConstructStub(env)
  /\ UNCHANGED <<calls, response, configVars, sideVars, chainVars, now, pending, result, hist>>

(***************************************************************************)
(* Mock implementations of the full service.                               *)
(***************************************************************************)
\* '0x' + hex of the first 32 bytes of JSON.stringify(approvalData); the
\* object starts {"approvalId":"<id>","requestId":" so these bytes are the
\* 15 of {"approvalId":" and the next 17 of the rest, which for an id of 2
\* characters ends right before the requestId value.
MockRecordTxHash(d) ==
  "0xhex:{approvalId:" \o Substring(d.approvalId, 0, 17)

\* '0x' + hex of the first 32 bytes of the id
MockDeactivateTxHash(approvalId) ==
  "0xhex:" \o Substring(approvalId, 0, 32)

DateNow == now * 1000

MockRecordSyncApproval(d) ==
  [BlankResult EXCEPT !.op = "recordSyncApproval", !.approvalId = d.approvalId,
     !.success = TRUE, !.transactionHash = MockRecordTxHash(d),
     !.blockNumber = DateNow, !.mock = TRUE]

MockDeactivateApproval(approvalId) ==
  [BlankResult EXCEPT !.op = "deactivateApproval", !.approvalId = approvalId,
     !.success = TRUE, !.transactionHash = MockDeactivateTxHash(approvalId),
     !.blockNumber = DateNow, !.mock = TRUE]

\* the predefined records of _mockGetApproval
MockData(approvalId) ==
  IF approvalId = TestId
  THEN [requestId |-> "real-request-id-1",
        requesterId |-> "real-requester-id-1", ownerId |-> "real-owner-id-1",
        requestType |-> "gcp", licenceKey |-> "GS1-123456",
        timestamp |-> now - 86400, isActive |-> TRUE,
        transactionHash |->
          "0x1234567890abcdef1234567890abcdef1234567890abcdef1234567890abcdef",
        blockNumber |-> 12345678]
  ELSE [requestId |-> "real-request-id-2",
        requesterId |-> "real-requester-id-2", ownerId |-> "real-owner-id-2",
        requestType |-> "excel", licenceKey |-> "GS1-654321",
        timestamp |-> now - 172800, isActive |-> FALSE,
        transactionHash |->
          "0xabcdef1234567890abcdef1234567890abcdef1234567890abcdef1234567890",
        blockNumber |-> 12345679]

\* the records _mockGetApproval can generate for an id without predefined
\* data; every Math.random() draw is a choice
MockGenerated(approvalId) ==
  { [requestId |-> "real-request-" \o Substring(approvalId, 0, 8),
     requesterId |-> "real-requester-" \o Substring(approvalId, 8, 16),
     ownerId |-> "real-owner-" \o Substring(approvalId, 16, 24),
     requestType |-> rt, licenceKey |-> "GS1-" \o ToString(r),
     timestamp |-> now - r, isActive |-> act,
     transactionHash |-> MockDeactivateTxHash(approvalId),
     blockNumber |-> 12345600 + r] :
       rt \in RequestTypes, r \in 0..MaxRandom, act \in BOOLEAN }

\* the results _mockGetApproval can return
MockGetApproval(approvalId) ==
  LET datas == IF approvalId \in {TestId, OtherMockId}
               THEN {MockData(approvalId)}
               ELSE MockGenerated(approvalId)
  IN  { [BlankResult EXCEPT !.op = "getApproval", !.approvalId = approvalId,
           !.success = TRUE, !.hasData = TRUE, !.data = rec, !.mock = TRUE] :
        rec \in datas }

MockGetTotalApprovals == 2

MockGetApprovalIdByIndex(index) ==
  IF index = 0 THEN TestId ELSE OtherMockId

(***************************************************************************)
(* The mock-only service.                                                  *)
(***************************************************************************)
StubRecordSyncApproval(d) == MockRecordSyncApproval(d)

StubDeactivateApproval(approvalId) == MockDeactivateApproval(approvalId)

StubGetApproval(approvalId) ==
  LET rec ==
        IF approvalId = TestId
        THEN [requestId |-> "test-request-id",
              requesterId |-> "test-requester-id",
              ownerId |-> "test-owner-id", requestType |-> "gcp",
              licenceKey |-> "test-licence-key", timestamp |-> DateNow,
              isActive |-> FALSE, transactionHash |-> Undefined,
              blockNumber |-> NullNumber]
        ELSE [requestId |-> "mock-request-" \o Substring(approvalId, 0, 8),
              requesterId |->
                "mock-requester-" \o Substring(approvalId, 8, 16),
              ownerId |-> "mock-owner-" \o Substring(approvalId, 16, 24),
              requestType |-> "gcp",
              licenceKey |->
                "MOCK-LICENSE-" \o Substring(approvalId, 24, 32),
              timestamp |-> DateNow, isActive |-> TRUE,
              transactionHash |-> Undefined, blockNumber |-> NullNumber]
  IN  [BlankResult EXCEPT !.op = "getApproval", !.approvalId = approvalId,
         !.success = TRUE, !.hasData = TRUE, !.data = rec, !.mock = TRUE]

(***************************************************************************)
(* The deployed contract, whichever variant it is.                         *)
(***************************************************************************)
ContractRecordApproval(st, approvalId, requestId, requesterId, ownerId, requestType, licenceKey, ts) ==
  IF contractKind = "strict"
  THEN StrictRecordApproval(st, approvalId, requestId, requesterId, ownerId,
                            requestType, licenceKey, ts)
  ELSE SimpleRecordApproval(st, approvalId, requestId, requesterId, ownerId,
                            requestType, licenceKey, ts)

ContractDeactivateApproval(st, approvalId) ==
  IF contractKind = "strict"
  THEN StrictDeactivateApproval(st, approvalId)
  ELSE SimpleDeactivateApproval(st, approvalId)

\* the transaction is mined in the next block; its event joins the log
NextTx == Len(events) + 1
Mined(ev) == Append(events, [name |-> ev.name, approvalId |-> ev.approvalId,
                             others |-> ev.others, tx |-> NextTx])

(***************************************************************************)
(* Call history (observation only; the program does not read it).          *)
(***************************************************************************)
NoInsert == [set |-> FALSE, data |-> NoData]
NoStored == [set |-> FALSE, rec |-> ZeroApproval]
NoCall ==
  [op |-> "", approvalId |-> "", data |-> NoData, index |-> 0,
   fault |-> "none", priorInserted |-> FALSE, priorStored |-> FALSE,
   priorDeactivated |-> FALSE, changed |-> FALSE]

\* the id is in the contract's array
Stored(ids, approvalId) == \E i \in 1..Len(ids) : ids[i] = approvalId

\*  firstInsert[x]  input of the first recordSyncApproval of x that returned
\*                  success
\*  firstStored[x]  struct written by the first mined recordApproval of x
\*  inserted        ids of the successful recordSyncApproval calls, in order
\*  lastInsert      input of the last successful recordSyncApproval, while no
\*                  deactivateApproval call has followed it
\*  deactivated     ids for which deactivateApproval returned success
\*  inactiveSeen    ids seen in the array with isActive = false
\*  call            the last completed call: its input, what the node
\*                  answered, what held before it, whether it changed the
\*                  contract's mapping or array
InitHist ==
  [firstInsert |-> [i \in ApprovalIdSet |-> NoInsert],
   firstStored |-> [i \in ApprovalIdSet |-> NoStored],
   inserted |-> <<>>,
   lastInsert |-> NoInsert,
   deactivated |-> {},
   inactiveSeen |-> {},
   call |-> NoCall]

Call(op, approvalId, d, index, f) ==
  [op |-> op, approvalId |-> approvalId, data |-> d, index |-> index,
   fault |-> f,
   priorInserted |-> approvalId \in ApprovalIdSet
                       /\ hist.firstInsert[approvalId].set,
   priorStored |-> Stored(approvalIds, approvalId),
   priorDeactivated |-> approvalId \in hist.deactivated,
   changed |-> FALSE]

InactiveIds(apps, ids) ==
  {i \in ApprovalIdSet : Stored(ids, i) /\ ~apps[i].isActive}

\* a recordSyncApproval call returned
HistRecord(h, d, f, out) ==
  LET h1 == [h EXCEPT
               !.call = [Call("recordSyncApproval", d.approvalId, d, 0, f)
                           EXCEPT !.changed = out.mined],
               !.inactiveSeen =
                  @ \cup InactiveIds(out.approvals, out.approvalIds)]
  IN  IF ~out.res.success THEN h1
      ELSE [h1 EXCEPT
              !.firstInsert[d.approvalId] =
                 IF @.set THEN @ ELSE [set |-> TRUE, data |-> d],
              !.firstStored[d.approvalId] =
                 IF @.set \/ ~out.mined THEN @
                 ELSE [set |-> TRUE, rec |-> out.approvals[d.approvalId]],
              !.inserted = Append(@, d.approvalId),
              !.lastInsert = [set |-> TRUE, data |-> d]]

\* a deactivateApproval call returned
HistDeactivate(h, approvalId, f, out) ==
  [h EXCEPT
     !.call = [Call("deactivateApproval", approvalId, NoData, 0, f)
                 EXCEPT !.changed = out.approvals # approvals],
     !.lastInsert = NoInsert,
     !.deactivated = IF out.res.success THEN @ \cup {approvalId} ELSE @,
     !.inactiveSeen = @ \cup InactiveIds(out.approvals, approvalIds)]

\* a read returned
HistRead(h, op, approvalId, index, f) ==
  [h EXCEPT !.call = Call(op, approvalId, NoData, index, f)]

(***************************************************************************)
(* Web3BlockchainService.recordSyncApproval                                *)
(***************************************************************************)
\* approvalData.licenceKey || ''
LicenceKeyOrEmpty(k) == IF k = Undefined \/ k = "" THEN "" ELSE k

NoPending == [active |-> FALSE, data |-> NoData, attempts |-> 0]

RecordFailure(d, msg) ==
  [BlankResult EXCEPT !.op = "recordSyncApproval", !.approvalId = d.approvalId,
     !.error = msg]

\* One pass of recordSyncApproval in live mode: the try block and, when it
\* throws, the catch block.  f is what the node answers during the pass,
\* initOk whether the catch block's initGanacheAccount succeeds.
\* kind "retry" is the call re-entering itself.
RecordPass(d, f, initOk) ==
  LET needInit == svc.isGanache /\ svc.account = "none"
      initFails == needInit /\ f = "network"
      acct == IF needInit /\ ~initFails THEN "ganache0" ELSE svc.account
      call == ContractRecordApproval(Ledger, d.approvalId, d.requestId,
                d.requesterId, d.ownerId, d.requestType,
                LicenceKeyOrEmpty(d.licenceKey), now)
      thrown == IF initFails THEN NetworkMessage
                ELSE IF ~svc.web3 THEN "Web3 instance not initialized"
                ELSE IF acct = "none" THEN NoAccountMessage
                ELSE IF f = "network" THEN NetworkMessage
                ELSE IF ~call.ok THEN RevertMessage(call.revert)
                ELSE IF f = "funds" THEN FundsMessage
                ELSE ""
      same == [kind |-> "done", mined |-> FALSE, account |-> acct,
               approvals |-> approvals, approvalIds |-> approvalIds,
               events |-> events, res |-> BlankResult]
  IN  IF thrown = ""
      THEN [same EXCEPT !.mined = TRUE,
              !.approvals = call.approvals, !.approvalIds = call.approvalIds,
              !.events = Mined(call.event),
              !.res = [BlankResult EXCEPT !.op = "recordSyncApproval",
                         !.approvalId = d.approvalId, !.success = TRUE,
                         !.transactionHash = TxHash(NextTx),
                         !.blockNumber = NextTx]]
      ELSE IF IncludesInsufficientFunds(thrown)
      THEN IF svc.isGanache /\ initOk
           THEN [same EXCEPT !.kind = "retry", !.account = "ganache0"]
           ELSE [same EXCEPT !.res = RecordFailure(d, InsufficientFundsError)]
      ELSE IF env.allowFallback
      THEN [same EXCEPT !.res = MockRecordSyncApproval(d)]
      ELSE [same EXCEPT !.res = RecordFailure(d, RecordErrorPrefix \o thrown)]

\* what a pass leaves behind
RecordEffect(d, f, out, attempts) ==
  /\ out.mined => Len(events) < MaxTx
  /\ svc' = [svc EXCEPT !.account = out.account]
  /\ approvals' = out.approvals
  /\ approvalIds' = out.approvalIds
  /\ events' = out.events
  /\ IF out.kind = "retry"
     THEN /\ attempts < MaxRetries
          /\ pending' = [active |-> TRUE, data |-> d, attempts |-> attempts + 1]
          /\ UNCHANGED <<result, hist>>
     ELSE /\ pending' = NoPending
          /\ result' = out.res
          /\ out.res.success => Len(hist.inserted) < MaxInserts
          /\ hist' = HistRecord(hist, d, f, out)
  /\ UNCHANGED <<calls, response, configVars, sideVars, now>>

RecordSyncApproval ==
  /\ svc.state = "ready"
  /\ ~pending.active
  /\ \E d \in ApprovalInputs :
       IF serviceKind = "stub"
       THEN RecordEffect(d, "none", [kind |-> "done", mined |-> FALSE,
              account |-> svc.account, approvals |-> approvals,
              approvalIds |-> approvalIds, events |-> events,
              res |-> StubRecordSyncApproval(d)], 0)
       ELSE IF svc.mockMode
       THEN RecordEffect(d, "none", [kind |-> "done", mined |-> FALSE,
              account |-> svc.account, approvals |-> approvals,
              approvalIds |-> approvalIds, events |-> events,
              res |-> MockRecordSyncApproval(d)], 0)
       ELSE IF svc.readOnlyMode
       THEN RecordEffect(d, "none", [kind |-> "done", mined |-> FALSE,
              account |-> svc.account, approvals |-> approvals,
              approvalIds |-> approvalIds, events |-> events,
              res |-> RecordFailure(d, ReadOnlyError)], 0)
       ELSE \E f \in Faults, initOk \in BOOLEAN :
              RecordEffect(d, f, RecordPass(d, f, initOk), 0)

\* the re-entered call: return this.recordSyncApproval(approvalData)
RetryRecordSyncApproval ==
  /\ svc.state = "ready"
  /\ pending.active
  /\ \E f \in Faults, initOk \in BOOLEAN :
       RecordEffect(pending.data, f, RecordPass(pending.data, f, initOk),
                    pending.attempts)

(***************************************************************************)
(* Web3BlockchainService.deactivateApproval                                *)
(***************************************************************************)
DeactivateFailure(approvalId, msg) ==
  [BlankResult EXCEPT !.op = "deactivateApproval", !.approvalId = approvalId,
     !.error = msg]

\* live mode: the try block and its catch (no read-only check, no fallback)
DeactivatePass(approvalId, f) ==
  LET needInit == svc.isGanache /\ svc.account = "none"
      initFails == needInit /\ f = "network"
      acct == IF needInit /\ ~initFails THEN "ganache0" ELSE svc.account
      call == ContractDeactivateApproval(Ledger, approvalId)
      thrown == IF initFails THEN NetworkMessage
                ELSE IF acct = "none" THEN NoAddressMessage
                ELSE IF f = "network" THEN NetworkMessage
                ELSE IF ~call.ok THEN RevertMessage(call.revert)
                ELSE IF f = "funds" THEN FundsMessage
                ELSE ""
      same == [mined |-> FALSE, account |-> acct, approvals |-> approvals,
               events |-> events, res |-> BlankResult]
  IN  IF thrown = ""
      THEN [same EXCEPT !.mined = TRUE, !.approvals = call.approvals,
              !.events = Mined(call.event),
              !.res = [BlankResult EXCEPT !.op = "deactivateApproval",
                         !.approvalId = approvalId, !.success = TRUE,
                         !.transactionHash = TxHash(NextTx),
                         !.blockNumber = NextTx]]
      ELSE [same EXCEPT
              !.res = DeactivateFailure(approvalId,
                                        DeactivateErrorPrefix \o thrown)]

\* deactivateApproval re-resolving the mode when the call fails
DeactivateEffectSwitchingToMock(approvalId, f, out) ==
  /\ out.mined => Len(events) < MaxTx
  /\ svc' = [svc EXCEPT !.account = out.account,
                        !.mockMode = @ \/ ~out.res.success]
  /\ approvals' = out.approvals
  /\ events' = out.events
  /\ result' = out.res
  /\ hist' = HistDeactivate(hist, approvalId, f, out)
  /\ UNCHANGED <<calls, response, configVars, sideVars, approvalIds, now, pending>>

DeactivateEffect(approvalId, f, out) ==
  /\ out.mined => Len(events) < MaxTx
  /\ svc' = [svc EXCEPT !.account = out.account]
  /\ approvals' = out.approvals
  /\ events' = out.events
  /\ result' = out.res
  /\ hist' = HistDeactivate(hist, approvalId, f, out)
  /\ UNCHANGED <<calls, response, configVars, sideVars, approvalIds, now, pending>>

DeactivateApproval ==
  /\ svc.state = "ready"
  /\ ~pending.active
  /\ \E approvalId \in ApprovalIdSet :
       IF serviceKind = "stub"
       THEN DeactivateEffect(approvalId, "none",
              [mined |-> FALSE, account |-> svc.account,
               approvals |-> approvals, events |-> events,
               res |-> StubDeactivateApproval(approvalId)])
       ELSE IF svc.mockMode
       THEN DeactivateEffect(approvalId, "none",
              [mined |-> FALSE, account |-> svc.account,
               approvals |-> approvals, events |-> events,
               res |-> MockDeactivateApproval(approvalId)])
       ELSE \E f \in Faults :
              DeactivateEffect(approvalId, f, DeactivatePass(approvalId, f))

(***************************************************************************)
(* Web3BlockchainService.getApproval                                       *)
(***************************************************************************)
\* least position of a set of positions of the log, 0 when there is none
FirstOf(hits) ==
  IF hits = {} THEN 0 ELSE CHOOSE i \in hits : \A j \in hits : i <= j

\* the transaction getApproval reports for the id: the first ApprovalRecorded
\* event of the id, else the first event with the id among its values
EventTxFor(approvalId) ==
  LET i == FirstOf({k \in 1..Len(events) :
                      /\ events[k].name = "ApprovalRecorded"
                      /\ events[k].approvalId = approvalId})
      j == FirstOf({k \in 1..Len(events) :
                      \/ events[k].approvalId = approvalId
                      \/ approvalId \in events[k].others})
  IN  IF i # 0 THEN events[i].tx ELSE IF j # 0 THEN events[j].tx ELSE 0

GetFailure(approvalId, msg) ==
  [BlankResult EXCEPT !.op = "getApproval", !.approvalId = approvalId,
     !.error = msg]

\* getApproval answering every failure from the mock, whatever
\* ALLOW_MOCK_FALLBACK says
GetPassAlwaysFallback(approvalId, f) ==
  IF f = "network"
  THEN MockGetApproval(approvalId)
  ELSE { [BlankResult EXCEPT !.op = "getApproval",
            !.approvalId = approvalId, !.success = TRUE, !.hasData = TRUE,
            !.data = [NoRecord EXCEPT
                        !.requestId = approvals[approvalId].requestId]] }

\* live mode: the results the call can return when the node answers f
GetPass(approvalId, f) ==
  LET a == ContractGetApproval(Ledger, approvalId)
      tx == EventTxFor(approvalId)
      thrown == IF ~svc.web3 THEN "Web3 instance not initialized"
                ELSE IF f = "network" THEN NetworkMessage
                ELSE ""
      formattedData ==
        [requestId |-> a.requestId, requesterId |-> a.requesterId,
         ownerId |-> a.ownerId, requestType |-> a.requestType,
         licenceKey |-> a.licenceKey, timestamp |-> a.timestamp,
         isActive |-> a.isActive,
         transactionHash |-> IF tx = 0 THEN Null ELSE TxHash(tx),
         blockNumber |-> IF tx = 0 THEN NullNumber ELSE tx]
  IN  IF thrown = ""
      THEN { [BlankResult EXCEPT !.op = "getApproval",
                !.approvalId = approvalId, !.success = TRUE,
                !.hasData = TRUE, !.data = formattedData] }
      ELSE IF env.allowFallback
      THEN MockGetApproval(approvalId)
      ELSE { GetFailure(approvalId, GetErrorPrefix \o thrown) }

ReadFaults == {"none", "network"}

\* getApproval initialising the Ganache account as the writes do
GetApprovalInitialisingAccount ==
  /\ svc.state = "ready"
  /\ ~pending.active
  /\ \E approvalId \in ApprovalIdSet, f \in ReadFaults :
       /\ (serviceKind = "stub" \/ svc.mockMode) => f = "none"
       /\ \E r \in IF serviceKind = "stub" THEN {StubGetApproval(approvalId)}
                   ELSE IF svc.mockMode THEN MockGetApproval(approvalId)
                   ELSE GetPass(approvalId, f) :
            result' = r
       /\ hist' = HistRead(hist, "getApproval", approvalId, 0, f)
       /\ svc' = IF svc.isGanache /\ svc.account = "none" /\ f = "none"
                 THEN [svc EXCEPT !.account = "ganache0"] ELSE svc
  /\ UNCHANGED <<calls, response, configVars, sideVars, chainVars, now, pending>>

GetApproval ==
  /\ svc.state = "ready"
  /\ ~pending.active
  /\ \E approvalId \in ApprovalIdSet, f \in ReadFaults :
       /\ (serviceKind = "stub" \/ svc.mockMode) => f = "none"
       /\ \E r \in IF serviceKind = "stub" THEN {StubGetApproval(approvalId)}
                   ELSE IF svc.mockMode THEN MockGetApproval(approvalId)
                   ELSE GetPass(approvalId, f) :
            result' = r
       /\ hist' = HistRead(hist, "getApproval", approvalId, 0, f)
  /\ UNCHANGED <<calls, response, configVars, sideVars, svc, chainVars, now, pending>>

(***************************************************************************)
(* Web3BlockchainService.getTotalApprovals / getApprovalIdByIndex          *)
(***************************************************************************)
Threw(op, msg) ==
  [BlankResult EXCEPT !.op = op, !.threw = TRUE, !.error = msg]

TotalPass(f) ==
  IF f = "network"
  THEN Threw("getTotalApprovals", TotalErrorPrefix \o NetworkMessage)
  ELSE [BlankResult EXCEPT !.op = "getTotalApprovals", !.success = TRUE,
          !.value = ContractGetTotalApprovals(Ledger)]

GetTotalApprovals ==
  /\ svc.state = "ready"
  /\ serviceKind = "web3"
  /\ ~pending.active
  /\ \E f \in ReadFaults :
       /\ svc.mockMode => f = "none"
       /\ result' = IF svc.mockMode
                    THEN [BlankResult EXCEPT !.op = "getTotalApprovals",
                            !.success = TRUE, !.value = MockGetTotalApprovals,
                            !.mock = TRUE]
                    ELSE TotalPass(f)
       /\ hist' = HistRead(hist, "getTotalApprovals", "", 0, f)
  /\ UNCHANGED <<calls, response, configVars, sideVars, svc, chainVars, now, pending>>

\* indexes the callers pass
Indexes == (0 - 1)..MaxTx

IndexPass(index, f) ==
  LET call == ContractGetApprovalIdByIndex(Ledger, index)
      thrown == IF index < 0 THEN NegativeIndexMessage
                ELSE IF f = "network" THEN NetworkMessage
                ELSE IF ~call.ok THEN RevertMessage(call.revert)
                ELSE ""
  IN  IF thrown = ""
      THEN [BlankResult EXCEPT !.op = "getApprovalIdByIndex",
              !.index = index, !.success = TRUE, !.id = call.value]
      ELSE [Threw("getApprovalIdByIndex", IndexErrorPrefix \o thrown)
              EXCEPT !.index = index]

GetApprovalIdByIndex ==
  /\ svc.state = "ready"
  /\ serviceKind = "web3"
  /\ ~pending.active
  /\ \E index \in Indexes, f \in ReadFaults :
       /\ svc.mockMode => f = "none"
       /\ result' = IF svc.mockMode
                    THEN [BlankResult EXCEPT !.op = "getApprovalIdByIndex",
                            !.index = index, !.success = TRUE,
                            !.id = MockGetApprovalIdByIndex(index),
                            !.mock = TRUE]
                    ELSE IndexPass(index, f)
       /\ hist' = HistRead(hist, "getApprovalIdByIndex", "", index, f)
  /\ UNCHANGED <<calls, response, configVars, sideVars, svc, chainVars, now, pending>>

(***************************************************************************)
(* Routes: the scan of GET /search-approvals and GET /all-approvals.       *)
(***************************************************************************)
\* { approval_id: approvalId, ...approvalData.data }
Entry(approvalId, data) ==
  [approval_id |-> approvalId, requestId |-> data.requestId,
   requesterId |-> data.requesterId, ownerId |-> data.ownerId,
   requestType |-> data.requestType, licenceKey |-> data.licenceKey,
   timestamp |-> data.timestamp, isActive |-> data.isActive,
   transactionHash |-> data.transactionHash,
   blockNumber |-> data.blockNumber]

\* what the node does to the two requests of one iteration of the loop:
\* "id" fails getApprovalIdByIndex, "get" fails getApproval
ScanFaults == {"none", "id", "get"}

\* blockchainService.getApprovalIdByIndex(i)
ServiceIdByIndex(i, f) ==
  IF svc.mockMode
  THEN [BlankResult EXCEPT !.op = "getApprovalIdByIndex", !.index = i,
          !.success = TRUE, !.id = MockGetApprovalIdByIndex(i),
          !.mock = TRUE]
  ELSE IndexPass(i, IF f = "id" THEN "network" ELSE "none")

\* blockchainService.getApproval(approvalId): the results it can return
ServiceGetApproval(approvalId, f) ==
  IF svc.mockMode THEN MockGetApproval(approvalId)
  ELSE GetPass(approvalId, IF f = "get" THEN "network" ELSE "none")

\* one iteration of the loop: what it can push, nothing or one entry
FetchAt(i, f) ==
  LET idRes == ServiceIdByIndex(i, f)
  IN  IF idRes.threw THEN { <<>> }
      ELSE { IF r.success THEN << Entry(idRes.id, r.data) >> ELSE <<>> :
               r \in ServiceGetApproval(idRes.id, f) }

RECURSIVE ScanStoppingAtFailure(_, _, _)
RECURSIVE Scan(_, _, _)

\* the loop given up at the first iteration that fails
ScanStoppingAtFailure(i, total, faults) ==
  IF i >= total THEN { <<>> }
  ELSE UNION { IF h = <<>> THEN { <<>> }
               ELSE { h \o t : t \in ScanStoppingAtFailure(i + 1, total, faults) } :
                 h \in FetchAt(i, faults[i + 1]) }

\* for (let i = i0; i < totalApprovals; i++) { try { ... } catch { } }:
\* the lists the loop can collect
Scan(i, total, faults) ==
  IF i >= total THEN { <<>> }
  ELSE { h \o t : h \in FetchAt(i, faults[i + 1]),
                  t \in Scan(i + 1, total, faults) }

(***************************************************************************)
(* Routes: the filters of GET /search-approvals.                           *)
(***************************************************************************)
\* a date parameter that is not supplied
NoDate == 0 - 1

\* req.query; fromDate and toDate are given by the second of the epoch
\* their date string denotes
Query(requestId, requesterId, ownerId, requestType, licenceKey, fromDate, toDate, isActive) ==
  [requestId |-> requestId, requesterId |-> requesterId, ownerId |-> ownerId,
   requestType |-> requestType, licenceKey |-> licenceKey,
   fromDate |-> fromDate, toDate |-> toDate, isActive |-> isActive]

NoFilters ==
  Query(Undefined, Undefined, Undefined, Undefined, Undefined, NoDate, NoDate,
        Undefined)

\* the queries of the model
Queries ==
  { NoFilters,
    [NoFilters EXCEPT !.requestType = "gcp", !.isActive = "true"],
    [NoFilters EXCEPT !.requestType = "GCP", !.requestId = "r1"],
    [NoFilters EXCEPT !.isActive = "false"],
    [NoFilters EXCEPT !.fromDate = 1],
    [NoFilters EXCEPT !.toDate = 1] }

\* if (param): the parameter is a non-empty string
Supplied(v) == v # Undefined /\ v # ""

\* new Date(date).getTime(): milliseconds
DateGetTime(date) == date * 1000

\* approval.field && approval.field.toLowerCase().includes(param.toLowerCase())
TextFilter(field, param) ==
  field # "" /\ Includes(ToLowerCase(field), ToLowerCase(param))

\* approval.requestType && approval.requestType.toLowerCase() ===
\* requestType.toLowerCase()
TypeFilter(field, param) ==
  field # "" /\ ToLowerCase(field) = ToLowerCase(param)

\* the chain of filters; each step keeps the entries that pass it
FilterApprovals(all, q) ==
  LET Keep(a) ==
        /\ Supplied(q.requestId) => TextFilter(a.requestId, q.requestId)
        /\ Supplied(q.requesterId)
             => TextFilter(a.requesterId, q.requesterId)
        /\ Supplied(q.ownerId) => TextFilter(a.ownerId, q.ownerId)
        /\ Supplied(q.requestType)
             => TypeFilter(a.requestType, q.requestType)
        /\ Supplied(q.licenceKey) => TextFilter(a.licenceKey, q.licenceKey)
        /\ q.fromDate # NoDate
             => (a.timestamp # 0 /\ a.timestamp >= DateGetTime(q.fromDate))
        /\ q.toDate # NoDate
             => (a.timestamp # 0 /\ a.timestamp <= DateGetTime(q.toDate))
        /\ q.isActive # Undefined => (a.isActive = (q.isActive = "true"))
  IN  SelectSeq(all, Keep)

(***************************************************************************)
(* Routes: the responses.                                                  *)
(***************************************************************************)
\* the sample approvals both routes of the full router use when
\* getTotalApprovals throws
SampleApprovals ==
  << [approval_id |-> TestId, requestId |-> "test-request-id-1",
      requesterId |-> "test-requester-id-1", ownerId |-> "test-owner-id-1",
      requestType |-> "gcp", licenceKey |-> "GS1-123456",
      timestamp |-> DateNow - 1000000, isActive |-> TRUE,
      transactionHash |->
        "0x1234567890abcdef1234567890abcdef1234567890abcdef1234567890abcdef",
      blockNumber |-> 12345678],
     [approval_id |-> OtherMockId, requestId |-> "test-request-id-2",
      requesterId |-> "test-requester-id-2", ownerId |-> "test-owner-id-2",
      requestType |-> "excel", licenceKey |-> "GS1-654321",
      timestamp |-> DateNow - 2000000, isActive |-> FALSE,
      transactionHash |->
        "0xabcdef1234567890abcdef1234567890abcdef1234567890abcdef1234567890",
      blockNumber |-> 12345679] >>

\* the mock approvals of the router of src/routes
RouterMockApprovals ==
  << [approval_id |-> TestId, requestId |-> "test-request-id",
      requesterId |-> "test-requester-id", ownerId |-> "test-owner-id",
      requestType |-> "gcp", licenceKey |-> "test-licence-key",
      timestamp |-> DateNow - 86400000, isActive |-> TRUE,
      transactionHash |->
        "0x1234567890abcdef1234567890abcdef1234567890abcdef1234567890abcdef",
      blockNumber |-> 12345678],
     [approval_id |-> OtherMockId, requestId |-> "test-request-id-2",
      requesterId |-> "test-requester-id-2", ownerId |-> "test-owner-id-2",
      requestType |-> "excel", licenceKey |-> "test-licence-key-2",
      timestamp |-> DateNow - 172800000, isActive |-> FALSE,
      transactionHash |->
        "0xabcdef1234567890abcdef1234567890abcdef1234567890abcdef1234567890",
      blockNumber |-> 12345600] >>

\*  route           "search", "all" (full router) or "router-all"
\*  status          HTTP status
\*  total_found     data.total_found, NullNumber where the body has none
\*  total_approvals data.total_approvals, NullNumber where the body has none
\*  approvals       data.approvals
\*  query           req.query of the request
\*  countFailed     getTotalApprovals was called and threw
\*  scanned         the loop over the indexes ran
\*  faults          what the node did in each iteration of the loop
\*  recorded        data.recorded of POST /record-approval: "true", "false",
\*                  Undefined where the body has none
\*  controller      the controller module that served the request
\*  action, enabled req.body.action and BLOCKCHAIN_ENABLED === 'true'
\*  ctl             what the controller function returned to the route
\*  store           what the service call of the request returned
\*  mined           the request had a transaction mined
\*  path, apiKey    the route the request was sent to and its X-API-Key
\*                  header, where the route is one of the single-record
\*                  routes; route is then the function that answered
\*  message         message of the body, where a middleware answered
\*  user            req.user.userId as the handler of /requestAction found
\*                  it, Undefined where req.user was not set
\*  dbUpdated       the handler's database transaction completed
\*  attempted       the handler called recordSyncApprovalOnBlockchain
\*  requestStatus   data.status of /requestAction
NoResponse ==
  [route |-> "", status |-> 0, success |-> FALSE,
   total_found |-> NullNumber, total_approvals |-> NullNumber,
   approvals |-> <<>>, query |-> NoFilters, countFailed |-> FALSE,
   scanned |-> FALSE, faults |-> <<>>,
   recorded |-> Undefined, controller |-> "", action |-> "",
   enabled |-> FALSE,
   ctl |-> [success |-> FALSE, recorded |-> Undefined, error |-> ""],
   store |-> BlankResult, mined |-> FALSE,
   path |-> "", apiKey |-> "", message |-> "",
   user |-> Undefined, dbUpdated |-> FALSE, attempted |-> FALSE,
   requestStatus |-> ""]

Answer(route, q, status, success) ==
  [NoResponse EXCEPT !.route = route, !.query = q, !.status = status,
                     !.success = success]

\* the responses of GET /search-approvals
SearchResponses(q, enabled, cf, faults) ==
  IF svc.state = "failed" THEN { Answer("search", q, 500, FALSE) }
  ELSE IF ~enabled THEN { Answer("search", q, 200, FALSE) }
  ELSE IF ~svc.isGanache /\ svc.mockMode
  THEN { Answer("search", q, 400, FALSE) }
  ELSE LET total == TotalPass(cf)
           sample == FilterApprovals(SampleApprovals, q)
       IN  IF total.threw
           THEN { [Answer("search", q, 200, TRUE) EXCEPT
                     !.countFailed = TRUE, !.approvals = sample,
                     !.total_found = Len(sample), !.total_approvals = 0] }
           ELSE { [Answer("search", q, 200, TRUE) EXCEPT
                     !.scanned = TRUE, !.faults = faults,
                     !.approvals = FilterApprovals(all, q),
                     !.total_found = Len(FilterApprovals(all, q)),
                     !.total_approvals = total.value] :
                  all \in Scan(0, total.value, faults) }

\* the responses of GET /all-approvals of the full router
AllResponses(enabled, cf, faults) ==
  IF svc.state = "failed" THEN { Answer("all", NoFilters, 500, FALSE) }
  ELSE IF ~enabled THEN { Answer("all", NoFilters, 200, FALSE) }
  ELSE IF ~svc.isGanache /\ svc.mockMode
  THEN { Answer("all", NoFilters, 400, FALSE) }
  ELSE LET total == TotalPass(cf)
       IN  IF total.threw
           THEN { [Answer("all", NoFilters, 200, TRUE) EXCEPT
                     !.countFailed = TRUE, !.approvals = SampleApprovals,
                     !.total_approvals = Len(SampleApprovals)] }
           ELSE { [Answer("all", NoFilters, 200, TRUE) EXCEPT
                     !.scanned = TRUE, !.faults = faults,
                     !.approvals = all, !.total_approvals = total.value] :
                  all \in Scan(0, total.value, faults) }

\* blockchainService.getTotalApprovals() as the router of src/routes gets
\* it: the mock-only service has no such method
RouterTotal(cf) ==
  IF serviceKind = "stub"
  THEN Threw("getTotalApprovals",
             "blockchainService.getTotalApprovals is not a function")
  ELSE IF svc.mockMode
  THEN [BlankResult EXCEPT !.op = "getTotalApprovals", !.success = TRUE,
          !.value = MockGetTotalApprovals, !.mock = TRUE]
  ELSE TotalPass(cf)

\* the responses of GET /all-approvals of the router of src/routes
RouterAllResponses(enabled, cf, faults) ==
  IF svc.state = "failed" THEN { Answer("router-all", NoFilters, 500, FALSE) }
  ELSE IF ~enabled THEN { Answer("router-all", NoFilters, 200, FALSE) }
  ELSE LET total == RouterTotal(cf)
       IN  IF total.threw
           THEN { [Answer("router-all", NoFilters, 200, TRUE) EXCEPT
                     !.countFailed = TRUE, !.approvals = RouterMockApprovals,
                     !.total_approvals = 2] }
           ELSE { [Answer("router-all", NoFilters, 200, TRUE) EXCEPT
                     !.scanned = TRUE, !.faults = faults,
                     !.approvals = all, !.total_approvals = total.value] :
                  all \in Scan(0, total.value, faults) }

\* what the node can do during a request: to getTotalApprovals, and to each
\* iteration of the loop over the indexes the count announces
LoopFaults(n) == [1..n -> ScanFaults]

ScanLength == IF svc.mockMode THEN MockGetTotalApprovals ELSE Len(approvalIds)

\* The route's own new Web3BlockchainService() reads the environment the
\* service of the controllers was built from, and resolves the same mode.
\* A request is answered from the environment and the contract alone and
\* changes neither, so the response is kept as the last thing that happened:
\* the transactions and the clock go on from the state before the request,
\* which is the same chain, and every state of the chain is still queried.
SearchApprovals ==
  /\ serviceKind = "web3"
  /\ svc.state # "new"
  /\ response = NoResponse
  /\ \E q \in Queries, enabled \in BOOLEAN, cf \in ReadFaults :
       \E faults \in LoopFaults(ScanLength) :
         /\ svc.mockMode => (cf = "none" /\ \A i \in DOMAIN faults : faults[i] = "none")
         /\ response' \in SearchResponses(q, enabled, cf, faults)
  /\ UNCHANGED <<calls, configVars, sideVars, svc, chainVars, now, pending, result, hist>>

AllApprovals ==
  /\ serviceKind = "web3"
  /\ svc.state # "new"
  /\ response = NoResponse
  /\ \E enabled \in BOOLEAN, cf \in ReadFaults :
       \E faults \in LoopFaults(ScanLength) :
         /\ svc.mockMode => (cf = "none" /\ \A i \in DOMAIN faults : faults[i] = "none")
         /\ response' \in AllResponses(enabled, cf, faults)
  /\ UNCHANGED <<calls, configVars, sideVars, svc, chainVars, now, pending, result, hist>>

RouterAllApprovals ==
  /\ svc.state # "new"
  /\ response = NoResponse
  /\ \E enabled \in BOOLEAN, cf \in ReadFaults :
       \E faults \in LoopFaults(ScanLength) :
         /\ (serviceKind = "stub" \/ svc.mockMode)
              => (cf = "none" /\ \A i \in DOMAIN faults : faults[i] = "none")
         /\ response' \in RouterAllResponses(enabled, cf, faults)
  /\ UNCHANGED <<calls, configVars, sideVars, svc, chainVars, now, pending, result, hist>>

(***************************************************************************)
(* Transactions other clients of the contract send (the seeding script).   *)
(* They are taken from the states in which no response is being looked at. *)
(***************************************************************************)
SendRecordApproval ==
  /\ response = NoResponse
  /\ Len(events) < MaxTx
  /\ \E d \in ApprovalInputs :
       LET call == ContractRecordApproval(Ledger, d.approvalId, d.requestId,
                     d.requesterId, d.ownerId, d.requestType,
                     LicenceKeyOrEmpty(d.licenceKey), now)
       IN  /\ call.ok
           /\ approvals' = call.approvals
           /\ approvalIds' = call.approvalIds
           /\ events' = Mined(call.event)
  /\ UNCHANGED <<calls, response, configVars, sideVars, svc, now, pending, result, hist>>

SendDeactivateApproval ==
  /\ response = NoResponse
  /\ Len(events) < MaxTx
  /\ \E approvalId \in ApprovalIdSet :
       LET call == ContractDeactivateApproval(Ledger, approvalId)
       IN  /\ call.ok
           /\ approvals' = call.approvals
           /\ events' = Mined(call.event)
  /\ UNCHANGED <<calls, response, configVars, sideVars, svc, approvalIds, now, pending, result, hist>>

(***************************************************************************)
(* The contract on its own: recordApproval and deactivateApproval sent by  *)
(* any account, each mined in a block of its own at the chain's time.      *)
(***************************************************************************)
MaxBlocks == 3

MineRecordApproval ==
  /\ Len(events) < MaxBlocks
  /\ \E d \in ApprovalInputs :
       LET call == ContractRecordApproval(Ledger, d.approvalId, d.requestId,
                     d.requesterId, d.ownerId, d.requestType,
                     LicenceKeyOrEmpty(d.licenceKey), now)
       IN  /\ call.ok
           /\ approvals' = call.approvals
           /\ approvalIds' = call.approvalIds
           /\ events' = Mined(call.event)
  /\ UNCHANGED <<calls, response, configVars, sideVars, svc, now, pending, result, hist>>

MineDeactivateApproval ==
  /\ Len(events) < MaxBlocks
  /\ \E approvalId \in ApprovalIdSet :
       LET call == ContractDeactivateApproval(Ledger, approvalId)
       IN  /\ call.ok
           /\ approvals' = call.approvals
           /\ events' = Mined(call.event)
  /\ UNCHANGED <<calls, response, configVars, sideVars, svc, approvalIds, now, pending, result, hist>>

(***************************************************************************)
(* Calls in flight at once.  recordSyncApproval and deactivateApproval are *)
(* async: a call gives way at  await tx.estimateGas(...)  and at           *)
(* await tx.send(...),  and the calls of other requests run in between.    *)
(* The node answers every request here; what a call does when the node     *)
(* fails is followed by RecordSyncApproval and DeactivateApproval above.   *)
(***************************************************************************)
\* requests served at the same time
MaxCallers == 2
Callers == 1..MaxCallers

\*  phase       "idle", "estimate" (at await tx.estimateGas), "send" (at
\*              await tx.send) or "done"
\*  res         what the call returned
\*  concurrent  the callers whose call was in flight while this one was
\*  priorActive the id's record was active when the call started
IdleCall ==
  [phase |-> "idle", op |-> "", approvalId |-> "", data |-> NoData,
   res |-> BlankResult, concurrent |-> {}, priorActive |-> FALSE]

NoCalls == [c \in Callers |-> IdleCall]

InFlight(c) == calls[c].phase \in {"estimate", "send"}

\* what send() throws when the transaction is mined and reverts: the revert
\* reason as Ganache reports it, or the message web3 builds from a receipt
\* whose status is false
RevertedByEvmMessage == "Transaction has been reverted by the EVM"
SendRevertMessages(reason) == {RevertMessage(reason), RevertedByEvmMessage}

\* the catch block of recordSyncApproval for an error that is not
\* 'insufficient funds'
RecordCatch(d, thrown) ==
  IF env.allowFallback THEN MockRecordSyncApproval(d)
  ELSE RecordFailure(d, RecordErrorPrefix \o thrown)

\* the catch block of deactivateApproval
DeactivateCatch(approvalId, thrown) ==
  DeactivateFailure(approvalId, DeactivateErrorPrefix \o thrown)

CallCatch(call, thrown) ==
  IF call.op = "recordSyncApproval" THEN RecordCatch(call.data, thrown)
  ELSE DeactivateCatch(call.approvalId, thrown)

\* the contract call of the transaction the call has prepared
CallTx(call) ==
  IF call.op = "recordSyncApproval"
  THEN ContractRecordApproval(Ledger, call.data.approvalId,
         call.data.requestId, call.data.requesterId, call.data.ownerId,
         call.data.requestType, LicenceKeyOrEmpty(call.data.licenceKey), now)
  ELSE [ContractDeactivateApproval(Ledger, call.approvalId)
          EXCEPT !.approvalIds = approvalIds]

\* the call of caller c starts: every call in flight is concurrent with it
Started(c, op, approvalId, d) ==
  [k \in Callers |->
     IF k = c
     THEN [IdleCall EXCEPT !.phase = "estimate", !.op = op,
             !.approvalId = approvalId, !.data = d,
             !.concurrent = {j \in Callers \ {c} : InFlight(j)},
             !.priorActive = approvals[approvalId].isActive]
     ELSE IF InFlight(k)
     THEN [calls[k] EXCEPT !.concurrent = @ \cup {c}]
     ELSE calls[k]]

\* the call of caller c returns res
Returned(c, res) ==
  [calls EXCEPT ![c].phase = "done", ![c].res = res]

\* recordSyncApproval up to  await tx.estimateGas
BeginRecordSyncApproval ==
  /\ svc.state = "ready"
  /\ \E c \in Callers, d \in ApprovalInputs :
       /\ calls[c].phase = "idle"
       /\ IF serviceKind = "stub"
          THEN /\ calls' = [calls EXCEPT ![c] =
                   [IdleCall EXCEPT !.phase = "done",
                      !.op = "recordSyncApproval",
                      !.approvalId = d.approvalId, !.data = d,
                      !.res = StubRecordSyncApproval(d)]]
               /\ UNCHANGED svc
          ELSE IF svc.mockMode
          THEN /\ calls' = [calls EXCEPT ![c] =
                   [IdleCall EXCEPT !.phase = "done",
                      !.op = "recordSyncApproval",
                      !.approvalId = d.approvalId, !.data = d,
                      !.res = MockRecordSyncApproval(d)]]
               /\ UNCHANGED svc
          ELSE IF svc.readOnlyMode
          THEN /\ calls' = [calls EXCEPT ![c] =
                   [IdleCall EXCEPT !.phase = "done",
                      !.op = "recordSyncApproval",
                      !.approvalId = d.approvalId, !.data = d,
                      !.res = RecordFailure(d, ReadOnlyError)]]
               /\ UNCHANGED svc
          ELSE /\ calls' = Started(c, "recordSyncApproval", d.approvalId, d)
               /\ svc' = IF svc.isGanache /\ svc.account = "none"
                         THEN [svc EXCEPT !.account = "ganache0"] ELSE svc
  /\ UNCHANGED <<response, configVars, sideVars, chainVars, now, pending, result, hist>>

\* deactivateApproval up to  await tx.estimateGas;  with no account,
\* this.account.address  throws before the transaction is prepared
BeginDeactivateApproval ==
  /\ svc.state = "ready"
  /\ \E c \in Callers, approvalId \in ApprovalIdSet :
       /\ calls[c].phase = "idle"
       /\ IF serviceKind = "stub"
          THEN /\ calls' = [calls EXCEPT ![c] =
                   [IdleCall EXCEPT !.phase = "done",
                      !.op = "deactivateApproval", !.approvalId = approvalId,
                      !.res = StubDeactivateApproval(approvalId)]]
               /\ UNCHANGED svc
          ELSE IF svc.mockMode
          THEN /\ calls' = [calls EXCEPT ![c] =
                   [IdleCall EXCEPT !.phase = "done",
                      !.op = "deactivateApproval", !.approvalId = approvalId,
                      !.res = MockDeactivateApproval(approvalId)]]
               /\ UNCHANGED svc
          ELSE IF ~svc.isGanache /\ svc.account = "none"
          THEN /\ calls' = [calls EXCEPT ![c] =
                   [IdleCall EXCEPT !.phase = "done",
                      !.op = "deactivateApproval", !.approvalId = approvalId,
                      !.res = DeactivateCatch(approvalId, NoAddressMessage)]]
               /\ UNCHANGED svc
          ELSE /\ calls' = Started(c, "deactivateApproval", approvalId, NoData)
               /\ svc' = IF svc.isGanache /\ svc.account = "none"
                         THEN [svc EXCEPT !.account = "ganache0"] ELSE svc
  /\ UNCHANGED <<response, configVars, sideVars, chainVars, now, pending, result, hist>>

\* await tx.estimateGas(...): the node runs the call on the chain as it is
EstimateGas ==
  /\ \E c \in Callers :
       /\ calls[c].phase = "estimate"
       /\ LET tx == CallTx(calls[c])
          IN  calls' = IF tx.ok THEN [calls EXCEPT ![c].phase = "send"]
                       ELSE Returned(c, CallCatch(calls[c],
                                                  RevertMessage(tx.revert)))
  /\ UNCHANGED <<response, configVars, sideVars, svc, chainVars, now, pending, result, hist>>

\* await tx.send(...): the transaction is mined on the chain as it is then
SendTransaction ==
  /\ \E c \in Callers :
       /\ calls[c].phase = "send"
       /\ LET tx == CallTx(calls[c])
          IN  IF tx.ok
              THEN /\ approvals' = tx.approvals
                   /\ approvalIds' = tx.approvalIds
                   /\ events' = Mined(tx.event)
                   /\ calls' = Returned(c,
                        [BlankResult EXCEPT !.op = calls[c].op,
                           !.approvalId = calls[c].approvalId,
                           !.success = TRUE,
                           !.transactionHash = TxHash(NextTx),
                           !.blockNumber = NextTx])
              ELSE /\ \E thrown \in SendRevertMessages(tx.revert) :
                        calls' = Returned(c, CallCatch(calls[c], thrown))
                   /\ UNCHANGED chainVars
  /\ UNCHANGED <<response, configVars, sideVars, svc, now, pending, result, hist>>

(***************************************************************************)
(* Controllers and the routes POST /record-approval and                    *)
(* GET /approval/:approvalId.  Three controller modules exist:             *)
(*   "shared"      src/controllers: one instance made when the module is   *)
(*                 loaded, outside any try                                 *)
(*   "onDemand"    part_007: the same inside a try, and made again by the  *)
(*                 functions while there is none                           *)
(*   "perRequest"  part_006: a new instance in every function call         *)
(* The request whose recordSyncApproval re-enters itself is followed by    *)
(* RetryRecordSyncApproval.                                                *)
(***************************************************************************)
ControllerKinds == {"shared", "onDemand", "perRequest"}

\* process.env.API_KEY || 'print-pack-blockchain-api-key'
ValidApiKey == "print-pack-blockchain-api-key"
\* req.headers['x-api-key'] of the requests
ApiKeys == {Undefined, "some-other-key", ValidApiKey}

\* apiKeyAuth: "" when it calls next(), else the message of its 401
ApiKeyAuth(apiKey) ==
  IF apiKey = Undefined \/ apiKey = "" THEN "API key is required"
  ELSE IF apiKey # ValidApiKey THEN "Invalid API key"
  ELSE ""

\* res.status(401).json(...) of apiKeyAuth on the route of path
Unauthorized(path, apiKey) ==
  [NoResponse EXCEPT !.route = "apiKeyAuth", !.path = path,
     !.apiKey = apiKey, !.status = 401,
     !.message = ApiKeyAuth(apiKey)]
Actions == {"approve", "reject"}

\* what new Web3BlockchainService() throws
ConstructErrorMessage ==
  "Failed to initialize blockchain connection: " \o InvalidKeyMessage

CtlResult(success, recorded, error) ==
  [success |-> success, recorded |-> recorded, error |-> error]

\* one call of recordSyncApproval in the mode the instance is in
RecordOut(d, f, initOk) ==
  LET still == [kind |-> "done", mined |-> FALSE, account |-> svc.account,
                approvals |-> approvals, approvalIds |-> approvalIds,
                events |-> events, res |-> BlankResult]
  IN  IF serviceKind = "stub"
      THEN [still EXCEPT !.res = StubRecordSyncApproval(d)]
      ELSE IF svc.mockMode
      THEN [still EXCEPT !.res = MockRecordSyncApproval(d)]
      ELSE IF svc.readOnlyMode
      THEN [still EXCEPT !.res = RecordFailure(d, ReadOnlyError)]
      ELSE RecordPass(d, f, initOk)

\* recordSyncApprovalOnBlockchain(syncRequest, action) after the service
\* call, or after the constructor threw (constructed = FALSE)
ControllerRecord(k, enabled, action, constructed, res) ==
  IF k # "perRequest" /\ ~enabled
  THEN CtlResult(TRUE, Undefined, "")
  ELSE IF action # "approve"
  THEN CtlResult(TRUE, "false", "")
  ELSE IF ~constructed
  THEN IF k = "perRequest"
       THEN CtlResult(FALSE, Undefined,
              "Failed to record approval on blockchain: "
                 \o ConstructErrorMessage)
       ELSE CtlResult(FALSE, "false", ConstructErrorMessage)
  ELSE IF res.success
  THEN CtlResult(TRUE, "true", "")
  ELSE IF k = "perRequest"
  THEN CtlResult(FALSE, Undefined, RecordErrorPrefix \o res.error)
  ELSE CtlResult(FALSE, "false", res.error)

\* the controller reaches  blockchainService.recordSyncApproval(...)
CallsRecord(k, enabled, action) ==
  /\ k = "perRequest" \/ enabled
  /\ action = "approve"
  /\ svc.state = "ready"

\* res.status(...).json(...) of POST /record-approval
RecordResponse(k, enabled, action, ctl, res, mined) ==
  [NoResponse EXCEPT
     !.route = "record", !.controller = k, !.action = action,
     !.enabled = enabled, !.ctl = ctl, !.store = res, !.mined = mined,
     !.status = IF ctl.success THEN 200 ELSE 500,
     !.success = ctl.success,
     !.recorded = IF ~ctl.success THEN Undefined
                  ELSE IF ctl.recorded = "true" THEN "true" ELSE "false"]

\* router.post('/record-approval', apiKeyAuth, validateRequest(...), handler)
\* with a body the schema accepts
PostRecordApproval ==
  /\ svc.state # "new"
  /\ response = NoResponse
  /\ \E k \in ControllerKinds, enabled \in BOOLEAN, action \in Actions :
       \E d \in ApprovalInputs, f \in Faults, initOk \in BOOLEAN :
        \E apiKey \in ApiKeys :
         LET out == RecordOut(d, f, initOk)
             sent(r) == [r EXCEPT !.path = "record", !.apiKey = apiKey]
         IN  \* the module of the shared instance did not load otherwise
             /\ k = "shared" => svc.state = "ready"
             /\ serviceKind = "stub" => k = "shared"
             /\ IF ApiKeyAuth(apiKey) # ""
                THEN /\ response' = Unauthorized("record", apiKey)
                     /\ UNCHANGED <<svc, chainVars>>
                ELSE IF CallsRecord(k, enabled, action)
                THEN /\ out.kind = "done"
                     /\ out.mined => Len(events) < MaxTx
                     /\ (serviceKind = "stub" \/ svc.mockMode \/ svc.readOnlyMode)
                          => (f = "none" /\ initOk)
                     /\ approvals' = out.approvals
                     /\ approvalIds' = out.approvalIds
                     /\ events' = out.events
                     /\ svc' = IF k = "perRequest" THEN svc
                               ELSE [svc EXCEPT !.account = out.account]
                     /\ response' = sent(RecordResponse(k, enabled, action,
                          ControllerRecord(k, enabled, action, TRUE, out.res),
                          out.res, out.mined))
                ELSE /\ f = "none" /\ initOk
                     /\ response' = sent(RecordResponse(k, enabled, action,
                          ControllerRecord(k, enabled, action, FALSE,
                                           BlankResult),
                          BlankResult, FALSE))
                     /\ UNCHANGED <<svc, chainVars>>
  /\ UNCHANGED <<calls, configVars, sideVars, now, pending, result, hist>>

\* getBlockchainApproval(approvalId): the results it can return
ControllerGet(k, enabled, approvalId, f) ==
  IF k # "perRequest" /\ ~enabled
  THEN { [BlankResult EXCEPT !.op = "disabled",
            !.error = "Blockchain integration is disabled"] }
  ELSE IF svc.state # "ready"
  THEN { GetFailure(approvalId,
           IF k = "perRequest"
           THEN GetErrorPrefix \o ConstructErrorMessage
           ELSE ConstructErrorMessage) }
  ELSE IF serviceKind = "stub" THEN {StubGetApproval(approvalId)}
  ELSE IF svc.mockMode THEN MockGetApproval(approvalId)
  ELSE GetPass(approvalId, f)

\* res.status(...).json(...) of GET /approval/:approvalId
ApprovalResponse(k, enabled, res) ==
  [NoResponse EXCEPT
     !.route = "approval", !.controller = k, !.enabled = enabled,
     !.ctl = CtlResult(res.success, Undefined, res.error), !.store = res,
     !.status = IF res.success THEN 200 ELSE 404,
     !.success = res.success]

\* router.get('/approval/:approvalId', handler): no middleware is installed,
\* the X-API-Key header of the request is not read
GetApprovalById ==
  /\ svc.state # "new"
  /\ response = NoResponse
  /\ \E k \in ControllerKinds, enabled \in BOOLEAN, apiKey \in ApiKeys :
       \E approvalId \in ApprovalIdSet, f \in ReadFaults :
         /\ k = "shared" => svc.state = "ready"
         /\ serviceKind = "stub" => k = "shared"
         /\ (serviceKind = "stub" \/ svc.mockMode \/ svc.state # "ready")
              => f = "none"
         /\ \E res \in ControllerGet(k, enabled, approvalId, f) :
              response' = [ApprovalResponse(k, enabled, res) EXCEPT
                             !.path = "approval", !.apiKey = apiKey]
  /\ UNCHANGED <<calls, configVars, sideVars, svc, chainVars, now, pending, result, hist>>

(***************************************************************************)
(* POST /api/requests/requestAction: apiKeyAuth, then approveSyncRequest   *)
(* over the mock database, whose findFirst answers every id with a pending *)
(* GCP request.  recorded is data.blockchain.recorded here.                *)
(***************************************************************************)
\* req.body.action: the two the schema accepts and one it rejects
BodyActions == Actions \cup {"cancel"}

NoUserMessage == "Cannot read properties of undefined (reading 'userId')"

\* what mockDatabase.syncRequest.findFirst returns, as approvalData
FoundRequest(request_id) ==
  ApprovalData(request_id, request_id, "mock-requester-id", "mock-owner-id",
               "gcp", "MOCK-LICENSE-KEY")

\* next(error): the error handler of the server
ErrorResponse(status, message) ==
  [NoResponse EXCEPT !.route = "errorHandler", !.status = status,
     !.message = message]

\* status of the updated request
UpdatedStatus(action) == IF action = "approve" THEN "approved" ELSE "rejected"

\* data.blockchain.recorded of the response to an approval
BlockchainRecorded(ctl) == IF ctl.success THEN ctl.recorded ELSE "false"

\* approveSyncRequest(req, res, next) with req.user.userId = user
ApproveSyncRequest(apiKey, user) ==
  \E k \in ControllerKinds, enabled \in BOOLEAN, action \in BodyActions :
    \E request_id \in {"A1"}, f \in Faults, initOk \in BOOLEAN :
      LET d == FoundRequest(request_id)
          out == RecordOut(d, f, initOk)
          sent(r) == [r EXCEPT !.path = "requestAction", !.apiKey = apiKey,
                        !.action = action, !.user = user,
                        !.controller = k, !.enabled = enabled]
          done(ctl, res, mined) ==
            sent([NoResponse EXCEPT !.route = "approveSyncRequest",
                    !.status = 200, !.success = TRUE, !.dbUpdated = TRUE,
                    !.requestStatus = UpdatedStatus(action),
                    !.attempted = action = "approve",
                    !.ctl = ctl, !.store = res, !.mined = mined,
                    !.recorded = IF action = "approve"
                                 THEN BlockchainRecorded(ctl)
                                 ELSE Undefined])
      IN  /\ k = "shared" => svc.state = "ready"
          /\ serviceKind = "stub" => k = "shared"
          /\ IF action \notin Actions
             THEN /\ response' = sent(ErrorResponse(400,
                                    "\"action\" must be one of [approve, reject]"))
                  /\ UNCHANGED <<svc, chainVars>>
             ELSE IF user = Undefined
             THEN /\ response' = sent(ErrorResponse(500, NoUserMessage))
                  /\ UNCHANGED <<svc, chainVars>>
             ELSE IF CallsRecord(k, enabled, action)
             THEN /\ out.kind = "done"
                  /\ out.mined => Len(events) < MaxTx
                  /\ (serviceKind = "stub" \/ svc.mockMode \/ svc.readOnlyMode)
                       => (f = "none" /\ initOk)
                  /\ approvals' = out.approvals
                  /\ approvalIds' = out.approvalIds
                  /\ events' = out.events
                  /\ svc' = IF k = "perRequest" THEN svc
                            ELSE [svc EXCEPT !.account = out.account]
                  /\ response' = done(
                       ControllerRecord(k, enabled, action, TRUE, out.res),
                       out.res, out.mined)
             ELSE /\ f = "none" /\ initOk
                  /\ response' = done(
                       IF action = "approve"
                       THEN ControllerRecord(k, enabled, action, FALSE,
                                             BlankResult)
                       ELSE CtlResult(FALSE, Undefined, ""),
                       BlankResult, FALSE)
                  /\ UNCHANGED <<svc, chainVars>>

\* router.post('/requestAction', apiKeyAuth, approveSyncRequest): apiKeyAuth
\* does not set req.user
PostRequestAction ==
  /\ svc.state # "new"
  /\ response = NoResponse
  /\ \E apiKey \in ApiKeys :
       IF ApiKeyAuth(apiKey) # ""
       THEN /\ response' = Unauthorized("requestAction", apiKey)
            /\ UNCHANGED <<svc, chainVars>>
       ELSE ApproveSyncRequest(apiKey, Undefined)
  /\ UNCHANGED <<calls, configVars, sideVars, now, pending, result, hist>>

\* approveSyncRequest mounted behind a middleware that sets req.user, as
\* generalAuth does for every request that carries a bearer token
AuthenticatedRequestAction ==
  /\ svc.state # "new"
  /\ response = NoResponse
  /\ \E token \in {Undefined, "token"} :
       IF token = Undefined
       THEN /\ response' = [NoResponse EXCEPT !.route = "generalAuth",
                              !.path = "requestAction", !.status = 401,
                              !.message = "Authentication token is required"]
            /\ UNCHANGED <<svc, chainVars>>
       ELSE ApproveSyncRequest(Undefined, "test-user-id")
  /\ UNCHANGED <<calls, configVars, sideVars, now, pending, result, hist>>

\* router.get('/status', apiKeyAuth, handler)
GetStatus ==
  /\ svc.state # "new"
  /\ response = NoResponse
  /\ \E enabled \in BOOLEAN, apiKey \in ApiKeys :
       response' = IF ApiKeyAuth(apiKey) # ""
                   THEN Unauthorized("status", apiKey)
                   ELSE [NoResponse EXCEPT !.route = "status",
                           !.path = "status", !.apiKey = apiKey,
                           !.enabled = enabled, !.status = 200,
                           !.success = TRUE]
  /\ UNCHANGED <<calls, configVars, sideVars, svc, chainVars, now, pending, result, hist>>

(***************************************************************************)
(* The clock and the specification.                                        *)
(***************************************************************************)
Tick ==
  /\ response = NoResponse
  /\ now < MaxTime
  /\ now' = now + 1
  /\ UNCHANGED <<calls, response, configVars, sideVars, svc, chainVars, pending, result, hist>>

(***************************************************************************)
(* Private-key validation on the characters of the key: the static         *)
(* validator of the service and the validator of                           *)
(* scripts/validate-private-key.js.  A key is the sequence of its          *)
(* characters; process.env and process.argv hold strings only.             *)
(***************************************************************************)
\* [0-9a-fA-F]
HexDigits ==
  {"0", "1", "2", "3", "4", "5", "6", "7", "8", "9",
   "a", "b", "c", "d", "e", "f", "A", "B", "C", "D", "E", "F"}

\* {64} of the pattern
KeyLength == 64

\* the keys tried are this many characters shorter or longer than KeyLength
MaxSlack == 1

HexPrefix == <<"0", "x">>

NonEmptyStringMessage == "Private key must be a non-empty string"

\* key.startsWith(p)
StartsWith(key, p) ==
  Len(key) >= Len(p) /\ SubSeq(key, 1, Len(p)) = p

\* key.substring(start), on the characters of the key
SubstringFrom(key, start) == SubSeq(key, start + 1, Len(key))

\* const cleanKey = key.startsWith('0x') ? key.substring(2) : key
CleanKey(key) ==
  IF StartsWith(key, HexPrefix) THEN SubstringFrom(key, 2) ELSE key

\* /^[0-9a-fA-F]{64}$/.test(s): without the m flag $ is the end of input
TestHex64(s) ==
  Len(s) = KeyLength /\ \A i \in 1..Len(s) : s[i] \in HexDigits

\* /[^0-9a-fA-F]/.test(s)
ContainsNonHex(s) == \E i \in 1..Len(s) : s[i] \notin HexDigits

NoKeyResult ==
  [called |-> FALSE, threw |-> FALSE, error |-> "", value |-> <<>>]

\* the validator that accepts without removing the prefix it then adds
ServiceValidatePrivateKeyKeepingPrefix(key) ==
  IF key = <<>>
  THEN [called |-> TRUE, threw |-> TRUE, error |-> NonEmptyStringMessage,
        value |-> <<>>]
  ELSE IF ~TestHex64(CleanKey(key))
  THEN [called |-> TRUE, threw |-> TRUE, error |-> KeyFormatMessage,
        value |-> <<>>]
  ELSE [called |-> TRUE, threw |-> FALSE, error |-> "",
        value |-> HexPrefix \o key]

\* Web3BlockchainService.validatePrivateKey(key): the key it returns or the
\* message of the Error it throws
ServiceValidatePrivateKey(key) ==
  IF key = <<>>
  THEN [called |-> TRUE, threw |-> TRUE, error |-> NonEmptyStringMessage,
        value |-> <<>>]
  ELSE IF ~TestHex64(CleanKey(key))
  THEN [called |-> TRUE, threw |-> TRUE, error |-> KeyFormatMessage,
        value |-> <<>>]
  ELSE [called |-> TRUE, threw |-> FALSE, error |-> "",
        value |-> HexPrefix \o CleanKey(key)]

NoScriptResult ==
  [called |-> FALSE, valid |-> FALSE, error |-> "", formattedKey |-> <<>>,
   length |-> 0, containsNonHex |-> FALSE]

\* validatePrivateKey(key) of scripts/validate-private-key.js
ScriptValidatePrivateKey(key) ==
  IF key = <<>>
  THEN [NoScriptResult EXCEPT !.called = TRUE,
          !.error = NonEmptyStringMessage]
  ELSE IF ~TestHex64(CleanKey(key))
  THEN [NoScriptResult EXCEPT !.called = TRUE,
          !.error = KeyFormatMessage,
          !.length = Len(CleanKey(key)),
          !.containsNonHex = ContainsNonHex(CleanKey(key))]
  ELSE [NoScriptResult EXCEPT !.called = TRUE, !.valid = TRUE,
          !.formattedKey = HexPrefix \o CleanKey(key)]

\* n times the character c
Fill(c, n) == [i \in 1..n |-> c]

KeyPrefixes == {<<>>, HexPrefix, <<"0", "X">>, HexPrefix \o HexPrefix}
KeyChars == {"0", "9", "a", "f", "A", "F", "g", "x", " "}
KeyTails == {<<>>, <<"b">>, <<"G">>, <<"\n">>}

\* values of BLOCKCHAIN_PRIVATE_KEY and of process.argv[2]
Keys ==
  {<<>>, HexPrefix}
    \cup { p \o Fill(c, n) \o t :
             p \in KeyPrefixes, c \in KeyChars,
             n \in (KeyLength - MaxSlack - 1)..(KeyLength + MaxSlack),
             t \in KeyTails }

NoKeyCheck ==
  [key |-> <<>>, service |-> NoKeyResult, script |-> NoScriptResult,
   again |-> NoKeyResult, ran |-> {}]

\* constructor, lines 160-163: if (this.privateKey) the key is validated
ConstructorValidatesKey ==
  /\ "constructor" \notin keyCheck.ran
  /\ keyCheck' = [keyCheck EXCEPT
       !.ran = @ \cup {"constructor"},
       !.service = IF keyCheck.key = <<>> THEN NoKeyResult
                   ELSE ServiceValidatePrivateKey(keyCheck.key)]
  /\ UNCHANGED <<calls, response, configVars, svc, chainVars, now, pending,
                 result, hist, printPackSync, syncHist>>

\* main() of the script: if (!privateKey) it exits before validating
ScriptMain ==
  /\ "script" \notin keyCheck.ran
  /\ keyCheck' = [keyCheck EXCEPT
       !.ran = @ \cup {"script"},
       !.script = IF keyCheck.key = <<>> THEN NoScriptResult
                  ELSE ScriptValidatePrivateKey(keyCheck.key)]
  /\ UNCHANGED <<calls, response, configVars, svc, chainVars, now, pending,
                 result, hist, printPackSync, syncHist>>

\* the formatted key put in the .env file and validated by the constructor
ValidateFormattedKey ==
  /\ "formatted" \notin keyCheck.ran
  /\ keyCheck.script.valid
  /\ keyCheck' = [keyCheck EXCEPT
       !.ran = @ \cup {"formatted"},
       !.again = ServiceValidatePrivateKey(keyCheck.script.formattedKey)]
  /\ UNCHANGED <<calls, response, configVars, svc, chainVars, now, pending,
                 result, hist, printPackSync, syncHist>>

(***************************************************************************)
(* The PrintPackSync contract (src/middlewares/auth.js, from line 86):     *)
(* sync requests and products.  printPackSync is its storage; a            *)
(* transaction that reverts leaves the storage as it was.                  *)
(***************************************************************************)
\* the successful transactions of one behaviour
MaxSyncTx == 4

ZeroAddress == "0x0"
Addresses == {"0xA", "0xB"}
SyncRequestIds == {"R1"}
ProductIds == {"P1"}

\* enum RequestType { GCP, Excel }
GCP == 0
Excel == 1

\* enum RequestStatus { Pending, Approved, Rejected, Completed }
RequestStatuses == <<"Pending", "Approved", "Rejected", "Completed">>

\* the value of a mapping entry never written
ZeroSyncRequest ==
  [requestId |-> "", requester |-> ZeroAddress, owner |-> ZeroAddress,
   requesterEmail |-> "", ownerEmail |-> "", requestType |-> GCP,
   licenceKey |-> "", status |-> RequestStatuses[1], message |-> "",
   adminNotes |-> "", createdAt |-> 0, updatedAt |-> 0, approvedAt |-> 0,
   completedAt |-> 0, excelProcessed |-> FALSE, excelFilePath |-> ""]

ZeroProduct ==
  [productId |-> "", gtin |-> "", licenceKey |-> "", brandName |-> "",
   gpcCategoryCode |-> "", gtinType |-> "", createdAt |-> 0,
   updatedAt |-> 0, active |-> FALSE]

EmptySync ==
  [syncRequests |-> [r \in SyncRequestIds |-> ZeroSyncRequest],
   products |-> [p \in ProductIds |-> ZeroProduct],
   requesterToRequests |-> [a \in Addresses |-> <<>>],
   ownerToRequests |-> [a \in Addresses |-> <<>>],
   userToProducts |-> [a \in Addresses |-> <<>>]]

\* syncRequests[requestId]
SyncRequestAt(st, requestId) ==
  IF requestId \in DOMAIN st.syncRequests
  THEN st.syncRequests[requestId] ELSE ZeroSyncRequest

\* products[productId]
ProductAt(st, productId) ==
  IF productId \in DOMAIN st.products
  THEN st.products[productId] ELSE ZeroProduct

SyncRevert(st, message) == [ok |-> FALSE, revert |-> message, st |-> st]
SyncDone(st) == [ok |-> TRUE, revert |-> "", st |-> st]

\* createSyncRequest, lines 163-193
ContractCreateSyncRequest(st, sender, requestId, ownerEmail, requestType, licenceKey, message, requesterEmail, ts) ==
  IF requestId = "" THEN SyncRevert(st, "Request ID cannot be empty")
  ELSE IF ownerEmail = "" THEN SyncRevert(st, "Owner email cannot be empty")
  ELSE IF ~(requestType <= Excel) THEN SyncRevert(st, "Invalid request type")
  ELSE SyncDone([st EXCEPT
         !.syncRequests[requestId] =
            [@ EXCEPT !.requestId = requestId, !.requester = sender,
                      !.owner = ZeroAddress,
                      !.requesterEmail = requesterEmail,
                      !.ownerEmail = ownerEmail,
                      !.requestType = requestType,
                      !.licenceKey = licenceKey,
                      !.status = RequestStatuses[1],
                      !.message = message,
                      !.createdAt = ts, !.updatedAt = ts],
         !.requesterToRequests[sender] = Append(@, requestId)])

\* approveSyncRequest, lines 201-228
ContractApproveSyncRequest(st, sender, requestId, approve, notes, ts) ==
  LET request == SyncRequestAt(st, requestId)
      decided == [request EXCEPT
                    !.owner = sender,
                    !.status = IF approve THEN RequestStatuses[2]
                               ELSE RequestStatuses[3],
                    !.adminNotes = notes,
                    !.updatedAt = ts,
                    !.approvedAt = IF approve THEN ts ELSE @]
  IN  IF request.requestId = "" THEN SyncRevert(st, "Request does not exist")
      ELSE IF request.status # RequestStatuses[1]
      THEN SyncRevert(st, "Request is not pending")
      ELSE IF request.owner = ZeroAddress
      THEN SyncDone([st EXCEPT
             !.syncRequests[requestId] = decided,
             !.ownerToRequests[sender] = Append(@, requestId)])
      ELSE IF request.owner # sender
      THEN SyncRevert(st, "Only the owner can approve/reject this request")
      ELSE SyncDone([st EXCEPT !.syncRequests[requestId] = decided])

\* completeExcelRequest, lines 235-252
ContractCompleteExcelRequest(st, sender, requestId, excelFilePath, ts) ==
  LET request == SyncRequestAt(st, requestId)
  IN  IF request.requestId = "" THEN SyncRevert(st, "Request does not exist")
      ELSE IF request.requestType # Excel
      THEN SyncRevert(st, "Not an Excel request")
      ELSE IF request.status # RequestStatuses[2]
      THEN SyncRevert(st, "Request is not approved")
      ELSE IF request.owner # sender
      THEN SyncRevert(st, "Only the owner can complete this request")
      ELSE SyncDone([st EXCEPT
             !.syncRequests[requestId] =
                [@ EXCEPT !.status = RequestStatuses[4],
                          !.excelProcessed = TRUE,
                          !.excelFilePath = excelFilePath,
                          !.completedAt = ts, !.updatedAt = ts]])

\* addProduct, lines 264-304
ContractAddProduct(st, sender, productId, gtin, licenceKey, brandName, gpcCategoryCode, gtinType, requestId, ts) ==
  LET request == SyncRequestAt(st, requestId)
  IN  IF productId = "" THEN SyncRevert(st, "Product ID cannot be empty")
      ELSE IF gtin = "" THEN SyncRevert(st, "GTIN cannot be empty")
      ELSE IF request.requestId = ""
      THEN SyncRevert(st, "Request does not exist")
      ELSE IF request.status \notin {RequestStatuses[2], RequestStatuses[4]}
      THEN SyncRevert(st, "Request is not approved or completed")
      ELSE IF request.requester # sender /\ request.owner # sender
      THEN SyncRevert(st, "Only requester or owner can add products")
      ELSE SyncDone([st EXCEPT
             !.products[productId] =
                [@ EXCEPT !.productId = productId, !.gtin = gtin,
                          !.licenceKey = licenceKey,
                          !.brandName = brandName,
                          !.gpcCategoryCode = gpcCategoryCode,
                          !.gtinType = gtinType,
                          !.createdAt = ts, !.updatedAt = ts,
                          !.active = TRUE],
             !.userToProducts[sender] = Append(@, productId)])

\* the loop of updateProduct over userToProducts[msg.sender]
HasPermission(st, sender, productId) ==
  \E i \in 1..Len(st.userToProducts[sender]) :
     st.userToProducts[sender][i] = productId

\* updateProduct, lines 313-340
ContractUpdateProduct(st, sender, productId, brandName, gpcCategoryCode, active, ts) ==
  IF ProductAt(st, productId).productId = ""
  THEN SyncRevert(st, "Product does not exist")
  ELSE IF ~HasPermission(st, sender, productId)
  THEN SyncRevert(st, "You don't have permission to update this product")
  ELSE SyncDone([st EXCEPT
         !.products[productId] =
            [@ EXCEPT !.brandName = brandName,
                      !.gpcCategoryCode = gpcCategoryCode,
                      !.active = active, !.updatedAt = ts]])

\* the last transaction sent, the number mined, and the address whose
\* addProduct first stored each product
NoSyncHist ==
  [call |-> [fn |-> "", sender |-> ZeroAddress, id |-> "", ok |-> FALSE,
             revert |-> ""],
   mined |-> 0,
   creator |-> [p \in ProductIds |-> ZeroAddress]]

\* one transaction sent by sender: its effect on the storage and the history
SyncTransaction(fn, sender, id, out) ==
  /\ out.ok => syncHist.mined < MaxSyncTx
  /\ printPackSync' = out.st
  /\ syncHist' = [syncHist EXCEPT
       !.call = [fn |-> fn, sender |-> sender, id |-> id, ok |-> out.ok,
                 revert |-> out.revert],
       !.mined = IF out.ok THEN @ + 1 ELSE @,
       !.creator = IF /\ fn = "addProduct" /\ out.ok
                      /\ ProductAt(printPackSync, id).productId = ""
                   THEN [@ EXCEPT ![id] = sender] ELSE @]
  /\ UNCHANGED <<calls, response, configVars, svc, chainVars, now, pending,
                 result, hist, keyCheck>>

TxCreateSyncRequest ==
  \E sender \in Addresses, requestId \in SyncRequestIds \cup {""} :
    \E ownerEmail \in {"", "owner@example.com"}, requestType \in {GCP, Excel, 2} :
      SyncTransaction("createSyncRequest", sender, requestId,
        ContractCreateSyncRequest(printPackSync, sender, requestId,
          ownerEmail, requestType, "LK", "", "requester@example.com", now))

TxApproveSyncRequest ==
  \E sender \in Addresses, requestId \in SyncRequestIds, approve \in BOOLEAN :
    SyncTransaction("approveSyncRequest", sender, requestId,
      ContractApproveSyncRequest(printPackSync, sender, requestId, approve,
                                 "", now))

TxCompleteExcelRequest ==
  \E sender \in Addresses, requestId \in SyncRequestIds :
    SyncTransaction("completeExcelRequest", sender, requestId,
      ContractCompleteExcelRequest(printPackSync, sender, requestId,
                                   "file.xlsx", now))

TxAddProduct ==
  \E sender \in Addresses, productId \in ProductIds \cup {""} :
    \E gtin \in {"", "G1", "G2"}, requestId \in SyncRequestIds :
      SyncTransaction("addProduct", sender, productId,
        ContractAddProduct(printPackSync, sender, productId, gtin, "LK",
                           "brand", "", "", requestId, now))

TxUpdateProduct ==
  \E sender \in Addresses, productId \in ProductIds, active \in BOOLEAN :
    SyncTransaction("updateProduct", sender, productId,
      ContractUpdateProduct(printPackSync, sender, productId, "new brand",
                            "", active, now))

Init ==
  /\ \/ /\ serviceKind = "web3"
        /\ env \in Environments
        /\ contractKind \in {"strict", "simple"}
     \/ /\ serviceKind = "stub"
        /\ env = DefaultEnv
        /\ contractKind = "strict"
  /\ svc = NewService
  /\ approvals = [i \in ApprovalIdSet |-> ZeroApproval]
  /\ approvalIds = <<>>
  /\ events = <<>>
  /\ now = 1
  /\ pending = NoPending
  /\ result = BlankResult
  /\ hist = InitHist
  /\ response = NoResponse
  /\ calls = NoCalls
  /\ keyCheck = NoKeyCheck
  /\ printPackSync = EmptySync
  /\ syncHist = NoSyncHist

Next ==
  \/ Constructor
  \/ RecordSyncApproval
  \/ RetryRecordSyncApproval
  \/ DeactivateApproval
  \/ GetApproval
  \/ GetTotalApprovals
  \/ GetApprovalIdByIndex
  \/ Tick

Spec == Init /\ [][Next]_vars

(***************************************************************************)
(* Mode resolution over every environment: the constructor and the reads.  *)
(***************************************************************************)
\* every combination of BLOCKCHAIN_NETWORK, USE_MOCK_MODE,
\* ALLOW_MOCK_FALLBACK and BLOCKCHAIN_PRIVATE_KEY
AllEnvironments ==
  { Environment(n, u, a, k) :
      n \in Networks, u \in BOOLEAN, a \in BOOLEAN, k \in PrivateKeys }

InitModes ==
  /\ serviceKind = "web3"
  /\ env \in AllEnvironments
  /\ contractKind \in {"strict", "simple"}
  /\ svc = NewService
  /\ approvals = [i \in ApprovalIdSet |-> ZeroApproval]
  /\ approvalIds = <<>>
  /\ events = <<>>
  /\ now = 1
  /\ pending = NoPending
  /\ result = BlankResult
  /\ hist = InitHist
  /\ response = NoResponse
  /\ calls = NoCalls
  /\ keyCheck = NoKeyCheck
  /\ printPackSync = EmptySync
  /\ syncHist = NoSyncHist

NextModes ==
  \/ Constructor
  \/ GetApproval
  \/ GetTotalApprovals
  \/ GetApprovalIdByIndex
  \/ Tick

SpecModes == InitModes /\ [][NextModes]_vars

(***************************************************************************)
(* The routes over a contract other clients write to.                      *)
(***************************************************************************)
NextQuery ==
  \/ Constructor
  \/ SendRecordApproval
  \/ SendDeactivateApproval
  \/ SearchApprovals
  \/ AllApprovals
  \/ RouterAllApprovals
  \/ Tick

SpecQuery == Init /\ [][NextQuery]_vars

(***************************************************************************)
(* Calls in flight at once, over a contract other clients write to.        *)
(***************************************************************************)
NextRace ==
  \/ Constructor
  \/ SendRecordApproval
  \/ BeginRecordSyncApproval
  \/ BeginDeactivateApproval
  \/ EstimateGas
  \/ SendTransaction

SpecRace == Init /\ [][NextRace]_vars

(***************************************************************************)
(* The routes of single records, over a contract other clients write to.   *)
(***************************************************************************)
NextApi ==
  \/ Constructor
  \/ SendRecordApproval
  \/ SendDeactivateApproval
  \/ PostRecordApproval
  \/ GetApprovalById
  \/ GetStatus
  \/ Tick

SpecApi == Init /\ [][NextApi]_vars

(***************************************************************************)
(* The route of the sync requests, over a contract other clients write to. *)
(***************************************************************************)
NextRequests ==
  \/ Constructor
  \/ SendRecordApproval
  \/ PostRequestAction
  \/ AuthenticatedRequestAction
  \/ Tick

SpecRequests == Init /\ [][NextRequests]_vars

(***************************************************************************)
(* The service in mock mode from its construction: the environments in     *)
(* which the constructor resolves mockMode, the calls and the list routes. *)
(***************************************************************************)
InitMock ==
  /\ Init
  /\ serviceKind = "web3"
  /\ ConstructWeb3(env).state = "ready"
  /\ ConstructWeb3(env).mockMode

NextMock ==
  \/ Constructor
  \/ RecordSyncApproval
  \/ GetTotalApprovals
  \/ GetApprovalIdByIndex
  \/ SearchApprovals
  \/ AllApprovals
  \/ RouterAllApprovals

SpecMock == InitMock /\ [][NextMock]_vars

(***************************************************************************)
(* The contract on its own, before any service is constructed.             *)
(***************************************************************************)
InitLedger ==
  /\ serviceKind = "web3"
  /\ env = DefaultEnv
  /\ contractKind \in {"strict", "simple"}
  /\ svc = NewService
  /\ approvals = [i \in ApprovalIdSet |-> ZeroApproval]
  /\ approvalIds = <<>>
  /\ events = <<>>
  /\ now = 1
  /\ pending = NoPending
  /\ result = BlankResult
  /\ hist = InitHist
  /\ response = NoResponse
  /\ calls = NoCalls
  /\ keyCheck = NoKeyCheck
  /\ printPackSync = EmptySync
  /\ syncHist = NoSyncHist

NextLedger ==
  \/ MineRecordApproval
  \/ MineDeactivateApproval
  \/ Tick

SpecLedger == InitLedger /\ [][NextLedger]_vars

\* the validators on their own: a key is set, then the constructor and the
\* script read it
InitKeys ==
  /\ serviceKind = "web3"
  /\ env = DefaultEnv
  /\ contractKind = "strict"
  /\ svc = NewService
  /\ approvals = [i \in ApprovalIdSet |-> ZeroApproval]
  /\ approvalIds = <<>>
  /\ events = <<>>
  /\ now = 1
  /\ pending = NoPending
  /\ result = BlankResult
  /\ hist = InitHist
  /\ response = NoResponse
  /\ calls = NoCalls
  /\ keyCheck \in {[NoKeyCheck EXCEPT !.key = k] : k \in Keys}
  /\ printPackSync = EmptySync
  /\ syncHist = NoSyncHist

NextKeys ==
  \/ ConstructorValidatesKey
  \/ ScriptMain
  \/ ValidateFormattedKey

SpecKeys == InitKeys /\ [][NextKeys]_vars

\* the PrintPackSync contract on its own, freshly deployed
InitSync ==
  /\ InitLedger
  /\ contractKind = "strict"

NextSync ==
  \/ TxCreateSyncRequest
  \/ TxApproveSyncRequest
  \/ TxCompleteExcelRequest
  \/ TxAddProduct
  \/ TxUpdateProduct
  \/ Tick

SpecSync == InitSync /\ [][NextSync]_vars

(***************************************************************************)
(* Vocabulary of the properties.                                           *)
(***************************************************************************)
LastCall == hist.call

\* the failures the service returns when the contract reverts
IsDuplicateKeyError(r) ==
  ~r.success /\ r.error = RecordErrorPrefix \o RevertMessage(RevertExists)
IsNotFoundError(r) ==
  ~r.success /\ r.error = DeactivateErrorPrefix \o RevertMessage(RevertMissing)
IsAlreadyInactiveError(r) ==
  ~r.success
    /\ r.error = DeactivateErrorPrefix \o RevertMessage(RevertInactive)

\* the record carries the five caller-supplied fields of the input
SameFields(rec, d) ==
  /\ rec.requestId = d.requestId
  /\ rec.requesterId = d.requesterId
  /\ rec.ownerId = d.ownerId
  /\ rec.requestType = d.requestType
  /\ rec.licenceKey = LicenceKeyOrEmpty(d.licenceKey)

\* the key holds a record in the mapping
HasRecord(approvalId) == approvals[approvalId] # ZeroApproval

\* count() as the service reports it
Count == IF svc.mockMode THEN MockGetTotalApprovals
                         ELSE ContractGetTotalApprovals(Ledger)

Distinct(ids) ==
  \A i, j \in 1..Len(ids) : i # j => ids[i] # ids[j]

\* the environment asks for live mode on a remote network: no Ganache tag,
\* no USE_MOCK_MODE
LiveRequested == env.network # "ganache" /\ ~env.useMock

\* the service was constructed in live mode (read-only included)
LiveMode == serviceKind = "web3" /\ svc.state = "ready" /\ ~svc.mockMode

IsReadOnlyError(r) == ~r.success /\ r.error = ReadOnlyError

WriteOps == {"recordSyncApproval", "deactivateApproval"}
ReadOps == {"getApproval", "getTotalApprovals", "getApprovalIdByIndex"}

\* the record the contract holds for the id, as an entry of a response
StoredEntry(approvalId) ==
  LET a == approvals[approvalId]
      tx == EventTxFor(approvalId)
  IN  [approval_id |-> approvalId, requestId |-> a.requestId,
       requesterId |-> a.requesterId, ownerId |-> a.ownerId,
       requestType |-> a.requestType, licenceKey |-> a.licenceKey,
       timestamp |-> a.timestamp, isActive |-> a.isActive,
       transactionHash |-> IF tx = 0 THEN Null ELSE TxHash(tx),
       blockNumber |-> IF tx = 0 THEN NullNumber ELSE tx]

\* the entry carries the id and the seven stored fields of the id's record
SameRecord(entry, approvalId) ==
  /\ entry.approval_id = approvalId
  /\ entry.requestId = approvals[approvalId].requestId
  /\ entry.requesterId = approvals[approvalId].requesterId
  /\ entry.ownerId = approvals[approvalId].ownerId
  /\ entry.requestType = approvals[approvalId].requestType
  /\ entry.licenceKey = approvals[approvalId].licenceKey
  /\ entry.timestamp = approvals[approvalId].timestamp
  /\ entry.isActive = approvals[approvalId].isActive

\* the record satisfies every filter the query supplies; the dates and the
\* record's timestamp are seconds
Matches(rec, q) ==
  /\ Supplied(q.requestId)
       => Includes(ToLowerCase(rec.requestId), ToLowerCase(q.requestId))
  /\ Supplied(q.requesterId)
       => Includes(ToLowerCase(rec.requesterId), ToLowerCase(q.requesterId))
  /\ Supplied(q.ownerId)
       => Includes(ToLowerCase(rec.ownerId), ToLowerCase(q.ownerId))
  /\ Supplied(q.requestType)
       => ToLowerCase(rec.requestType) = ToLowerCase(q.requestType)
  /\ Supplied(q.licenceKey)
       => Includes(ToLowerCase(rec.licenceKey), ToLowerCase(q.licenceKey))
  /\ q.fromDate # NoDate => rec.timestamp >= q.fromDate
  /\ q.toDate # NoDate => rec.timestamp <= q.toDate
  /\ q.isActive # Undefined => (rec.isActive = (q.isActive = "true"))

\* the ids of the contract's array whose record satisfies the query
MatchingIds(q) ==
  LET Test(approvalId) == Matches(approvals[approvalId], q)
  IN  SelectSeq(approvalIds, Test)

\* the node failed no request of the scan
NoScanFault(r) == \A i \in DOMAIN r.faults : r.faults[i] = "none"

\* iteration i of the scan (from 1) failed: getApprovalIdByIndex threw or
\* getApproval returned a failure
FetchFailed(r, i) ==
  \/ r.faults[i] = "id"
  \/ r.faults[i] = "get" /\ ~env.allowFallback

\* the array positions whose fetch did not fail, in order
KeptPositions(r) ==
  LET Test(i) == ~FetchFailed(r, i)
  IN  SelectSeq([i \in 1..Len(approvalIds) |-> i], Test)

\* the call of caller c has returned from op
Done(c, op) == calls[c].phase = "done" /\ calls[c].op = op

\* the failures of a call whose transaction the contract reverted, at
\* estimateGas or when mined
IsDuplicateKeyFailure(r) ==
  /\ ~r.success
  /\ r.error \in {RecordErrorPrefix \o m : m \in SendRevertMessages(RevertExists)}

IsAlreadyInactiveFailure(r) ==
  /\ ~r.success
  /\ r.error \in {DeactivateErrorPrefix \o m :
                    m \in SendRevertMessages(RevertInactive)}

\* how many times the id is in the contract's array
Occurrences(approvalId) ==
  Cardinality({i \in 1..Len(approvalIds) : approvalIds[i] = approvalId})

\* the callers whose deactivateApproval of the id started while its record
\* was active
Deactivators(approvalId) ==
  {c \in Callers : /\ calls[c].op = "deactivateApproval"
                   /\ calls[c].approvalId = approvalId
                   /\ calls[c].priorActive}

\* the failure of a call whose node could not be reached
IsBackendUnavailable(r) ==
  /\ ~r.success
  /\ r.error \in {RecordErrorPrefix \o NetworkMessage,
                  GetErrorPrefix \o NetworkMessage}

\* GET /approval/:approvalId was answered by the contract for an id that is
\* not in its array
AnsweredForMissingId(r) ==
  /\ r.route = "approval"
  /\ r.store.op = "getApproval"
  /\ r.store.success
  /\ ~r.store.mock
  /\ serviceKind = "web3"
  /\ ~Stored(approvalIds, r.store.approvalId)

(***************************************************************************)
(* C1.  Once an approvalId has been inserted, an insert of the same id     *)
(* with different data fails with the duplicate-key error and the stored   *)
(* record still carries the data of the first insert, whichever contract   *)
(* is deployed and whichever mode the service is in.                       *)
(***************************************************************************)
C1_DuplicateInsertRejected ==
  LET c == LastCall
      x == c.approvalId
  IN  (/\ c.op = "recordSyncApproval"
       /\ c.fault = "none"
       /\ c.priorInserted
       /\ c.data # hist.firstInsert[x].data)
      => /\ IsDuplicateKeyError(result)
         /\ SameFields(approvals[x], hist.firstInsert[x].data)

(***************************************************************************)
(* C2.  Every stored record keeps the requestId, requesterId, ownerId,     *)
(* requestType, licenceKey and timestamp of its first successful insert,   *)
(* and once its isActive flag has been false it is never true again.       *)
(***************************************************************************)
C2_StoredFieldsImmutable ==
  \A x \in ApprovalIdSet :
    Stored(approvalIds, x) =>
      LET first == hist.firstStored[x].rec
          rec == approvals[x]
      IN  /\ rec.requestId = first.requestId
          /\ rec.requesterId = first.requesterId
          /\ rec.ownerId = first.ownerId
          /\ rec.requestType = first.requestType
          /\ rec.licenceKey = first.licenceKey
          /\ rec.timestamp = first.timestamp
          /\ x \in hist.inactiveSeen => ~rec.isActive

(***************************************************************************)
(* C3.  For an inserted id, a deactivate that no successful deactivate     *)
(* precedes succeeds and leaves isActive false; every deactivate after a   *)
(* successful one fails with the already-inactive error and changes        *)
(* nothing.                                                                *)
(***************************************************************************)
C3_DeactivateOnceThenRejected ==
  LET c == LastCall
      x == c.approvalId
  IN  (c.op = "deactivateApproval" /\ c.fault = "none" /\ c.priorInserted)
      => IF ~c.priorDeactivated
         THEN result.success /\ ~approvals[x].isActive
         ELSE /\ IsAlreadyInactiveError(result)
              /\ ~c.changed
              /\ ~approvals[x].isActive

(***************************************************************************)
(* C4.  After N successful inserts with distinct ids, however interleaved  *)
(* with get and deactivate calls, getTotalApprovals returns N and          *)
(* getApprovalIdByIndex(i), 0 <= i < N, returns the i-th inserted id.      *)
(***************************************************************************)
C4_CountAndOrderFollowInserts ==
  LET c == LastCall
      n == Len(hist.inserted)
  IN  (Distinct(hist.inserted) /\ c.fault = "none")
      => /\ c.op = "getTotalApprovals"
              => result.success /\ result.value = n
         /\ (c.op = "getApprovalIdByIndex" /\ c.index \in 0..(n - 1))
              => result.success /\ result.id = hist.inserted[c.index + 1]

(***************************************************************************)
(* C5.  The id sequence holds no id twice, an id is in the sequence        *)
(* exactly when the mapping holds a record for it, and the number of       *)
(* records equals the count.                                               *)
(***************************************************************************)
C5_SequenceMatchesMapping ==
  /\ Distinct(approvalIds)
  /\ \A x \in ApprovalIdSet : Stored(approvalIds, x) <=> HasRecord(x)
  /\ Cardinality({x \in ApprovalIdSet : HasRecord(x)})
       = ContractGetTotalApprovals(Ledger)

(***************************************************************************)
(* C6.  getApproval of an id that was never inserted does not return       *)
(* success.                                                                *)
(***************************************************************************)
C6_GetOfMissingIdFails ==
  LET c == LastCall
  IN  (/\ c.op = "getApproval"
       /\ c.fault = "none"
       /\ ~c.priorInserted
       /\ ~c.priorStored)
      => ~result.success

(***************************************************************************)
(* C7.  deactivateApproval of an id that was never inserted fails with the *)
(* not-found error, returns no receipt and leaves the mapping and the      *)
(* sequence as they were.                                                  *)
(***************************************************************************)
C7_DeactivateOfMissingIdFails ==
  LET c == LastCall
  IN  (/\ c.op = "deactivateApproval"
       /\ c.fault = "none"
       /\ ~svc.readOnlyMode
       /\ ~c.priorInserted
       /\ ~c.priorStored)
      => /\ IsNotFoundError(result)
         /\ result.transactionHash = ""
         /\ ~c.changed

(***************************************************************************)
(* C8.  getApprovalIdByIndex(i) returns an id only for 0 <= i < count();   *)
(* for every other i it fails, in every mode.                              *)
(***************************************************************************)
C8_IndexOutsideCountFails ==
  LET c == LastCall
  IN  (c.op = "getApprovalIdByIndex" /\ (c.index < 0 \/ c.index >= Count))
      => ~result.success

(***************************************************************************)
(* C9.  After recordSyncApproval(d) returned success, getApproval of d's   *)
(* id returns success with d's requestId, requesterId, ownerId,            *)
(* requestType and licenceKey and with isActive true, in live and in mock  *)
(* mode.                                                                   *)
(***************************************************************************)
C9_RecordThenGetRoundTrip ==
  LET c == LastCall
      d == hist.lastInsert.data
  IN  (/\ c.op = "getApproval"
       /\ c.fault = "none"
       /\ hist.lastInsert.set
       /\ c.approvalId = d.approvalId)
      => /\ result.success
         /\ result.hasData
         /\ SameFields(result.data, d)
         /\ result.data.isActive

(***************************************************************************)
(* C10.  Once deactivateApproval(x) has returned success, every            *)
(* getApproval(x) that succeeds reports isActive false.                    *)
(***************************************************************************)
C10_DeactivatedReadsInactive ==
  LET c == LastCall
  IN  (/\ c.op = "getApproval"
       /\ c.fault = "none"
       /\ result.success
       /\ c.approvalId \in hist.deactivated)
      => ~result.data.isActive

(***************************************************************************)
(* C11.  Constructed for live mode with a malformed private key, the       *)
(* service throws when ALLOW_MOCK_FALLBACK is not 'true' and is in mock    *)
(* mode when it is 'true'; in that mock mode every insert succeeds and a   *)
(* get of the inserted id returns the inserted record.                     *)
(***************************************************************************)
C11_MalformedKeyThrowsOrSimulates ==
  LET c == LastCall
      d == hist.lastInsert.data
  IN  (/\ serviceKind = "web3"
       /\ svc.state # "new"
       /\ LiveRequested
       /\ env.privateKey = "malformed")
      => IF ~env.allowFallback
         THEN svc.state = "failed"
         ELSE /\ svc.state = "ready"
              /\ svc.mockMode
              /\ c.op = "recordSyncApproval" => result.success
              /\ (/\ c.op = "getApproval"
                  /\ hist.lastInsert.set
                  /\ c.approvalId = d.approvalId)
                   => /\ result.success
                      /\ SameFields(result.data, d)

(***************************************************************************)
(* C12.  After construction the service is in read-only mode exactly when  *)
(* live mode was requested and the private key is absent or malformed.     *)
(***************************************************************************)
C12_ReadOnlyIffKeyAbsentOrMalformed ==
  (serviceKind = "web3" /\ svc.state # "new")
  => (svc.readOnlyMode
        <=> (LiveRequested /\ env.privateKey \in {"absent", "malformed"}))

(***************************************************************************)
(* C13.  In read-only mode recordSyncApproval and deactivateApproval fail  *)
(* with the read-only-mode error and change nothing on the chain, while    *)
(* getApproval, getTotalApprovals and getApprovalIdByIndex are answered by *)
(* the live backend.                                                       *)
(***************************************************************************)
C13_ReadOnlyRejectsWrites ==
  LET c == LastCall
  IN  (serviceKind = "web3" /\ svc.state = "ready" /\ svc.readOnlyMode)
      => /\ c.op \in WriteOps
              => /\ IsReadOnlyError(result)
                 /\ ~c.changed
         /\ (c.op \in ReadOps /\ c.fault = "none") => ~result.mock

C16_AtMostOneRetry ==
  pending.attempts <= 1

(***************************************************************************)
(* C17.  A search the node fails no request of returns exactly the stored  *)
(* records that satisfy every supplied filter, in the order of the         *)
(* contract's array.                                                       *)
(***************************************************************************)
C17_SearchReturnsExactlyMatching ==
  LET want == MatchingIds(response.query)
  IN  (response.route = "search" /\ response.scanned /\ NoScanFault(response))
      => /\ Len(response.approvals) = Len(want)
         /\ \A k \in 1..Len(want) : SameRecord(response.approvals[k], want[k])

(***************************************************************************)
(* C18.  Every successful search response has total_found at most          *)
(* total_approvals; a search with no filter that the node fails no request *)
(* of returns every stored record and total_found equals total_approvals.  *)
(***************************************************************************)
C18_SearchTotals ==
  (response.route = "search" /\ response.success)
  => /\ response.total_found <= response.total_approvals
     /\ response.total_found = Len(response.approvals)
     /\ (/\ response.query = NoFilters
         /\ response.scanned
         /\ NoScanFault(response))
          => /\ response.total_found = response.total_approvals
             /\ Len(response.approvals) = Len(approvalIds)
             /\ \A k \in 1..Len(approvalIds) :
                  SameRecord(response.approvals[k], approvalIds[k])

C20_CountFailureFailsRequest ==
  (response.route # "" /\ response.countFailed) => ~response.success

(***************************************************************************)
(* C21.  Of two recordSyncApproval calls of the same approvalId that were  *)
(* in flight at the same time, at most one returns success, the other      *)
(* returns the duplicate-key failure, and the contract holds one record    *)
(* and one array entry for the id.                                         *)
(***************************************************************************)
C21_ConcurrentInsertsOneWinner ==
  \A c1, c2 \in Callers :
    (/\ c1 # c2
     /\ Done(c1, "recordSyncApproval")
     /\ Done(c2, "recordSyncApproval")
     /\ calls[c1].approvalId = calls[c2].approvalId
     /\ c2 \in calls[c1].concurrent)
    => /\ ~(calls[c1].res.success /\ calls[c2].res.success)
       /\ ~calls[c1].res.success => IsDuplicateKeyFailure(calls[c1].res)
       /\ ~calls[c2].res.success => IsDuplicateKeyFailure(calls[c2].res)
       /\ HasRecord(calls[c1].approvalId)
       /\ Occurrences(calls[c1].approvalId) = 1

(***************************************************************************)
(* C22.  Of the deactivateApproval calls of one active id that were all in *)
(* flight at the same time, exactly one returns success and every other    *)
(* returns the already-inactive failure.                                   *)
(***************************************************************************)
C22_ConcurrentDeactivatesOneWinner ==
  \A x \in ApprovalIdSet :
    LET G == Deactivators(x)
    IN  (/\ Cardinality(G) >= 2
         /\ \A c \in G : Done(c, "deactivateApproval")
         /\ \A c1, c2 \in G : c1 # c2 => c2 \in calls[c1].concurrent)
        => /\ Cardinality({c \in G : calls[c].res.success}) = 1
           /\ \A c \in G : ~calls[c].res.success
                             => IsAlreadyInactiveFailure(calls[c].res)

(***************************************************************************)
(* C23.  For an action other than 'approve' recordSyncApprovalOnBlockchain *)
(* has no transaction mined and returns success with recorded false; and   *)
(* every result of POST /record-approval, the controller's and the body    *)
(* of the response, carries recorded as true or false, also when the       *)
(* integration is disabled or the write fails.                             *)
(***************************************************************************)
C23_RecordedAlwaysReported ==
  response.route = "record"
  => /\ response.action # "approve"
          => /\ ~response.mined
             /\ response.ctl.success
             /\ response.ctl.recorded = "false"
     /\ response.ctl.recorded \in {"true", "false"}
     /\ response.recorded \in {"true", "false"}

(***************************************************************************)
(* C24.  When the constructor threw as the process started, no request is  *)
(* answered.                                                               *)
(***************************************************************************)
C24_FailedConstructionServesNothing ==
  (serviceKind = "web3" /\ svc.state = "failed") => response = NoResponse

(***************************************************************************)
(* C28.  The status of a request follows the failure of the store: 409    *)
(* for a duplicate key, 404 for an id the contract does not hold, 503 for  *)
(* read-only mode and for a node that cannot be reached, and 500 for none  *)
(* of these.                                                               *)
(***************************************************************************)
C28_StatusFollowsStoreError ==
  response.route \in {"record", "approval"}
  => /\ IsDuplicateKeyError(response.store) => response.status = 409
     /\ AnsweredForMissingId(response) => response.status = 404
     /\ IsReadOnlyError(response.store) => response.status = 503
     /\ IsBackendUnavailable(response.store) => response.status = 503
     /\ response.status = 500
          => /\ ~IsDuplicateKeyError(response.store)
             /\ ~IsReadOnlyError(response.store)
             /\ ~IsBackendUnavailable(response.store)

(***************************************************************************)
(* C25: after the constructor has returned, no operation of the service    *)
(* changes mockMode, readOnlyMode, isGanache or the web3 and contract      *)
(* handles; the account is the only field that changes, and it changes     *)
(* only where initGanacheAccount acts: on Ganache, to the node's first     *)
(* account.                                                                *)
(***************************************************************************)
C25_OnlyAccountChangesAfterConstruction ==
  [][svc.state # "new"
       => /\ svc'.state = svc.state
          /\ svc'.mockMode = svc.mockMode
          /\ svc'.readOnlyMode = svc.readOnlyMode
          /\ svc'.isGanache = svc.isGanache
          /\ svc'.web3 = svc.web3
          /\ svc'.account # svc.account
               => svc.isGanache /\ svc'.account = "ganache0"]_vars

\* a write on Ganache has initialised the account and mined its transaction
C25_Witness ==
  /\ svc.state = "ready"
  /\ svc.isGanache
  /\ svc.account = "ganache0"
  /\ hist.call.op \in WriteOps
  /\ result.success
  /\ Len(events) > 0

(***************************************************************************)
(* C30: getApproval is a pure read: for every id, in every mode and        *)
(* whatever the node answers, the call leaves the contract's storage and   *)
(* log and every field of the service as they were.                        *)
(***************************************************************************)
C30_GetApprovalIsPureRead ==
  [][(/\ hist'.call.op = "getApproval"
      /\ <<result, hist>>' # <<result, hist>>)
       => /\ svc' = svc
          /\ approvals' = approvals
          /\ approvalIds' = approvalIds
          /\ events' = events]_vars

\* getApproval has answered in live mode for an id the contract holds
C30_Witness ==
  /\ hist.call.op = "getApproval"
  /\ result.op = "getApproval"
  /\ result.success
  /\ LiveMode
  /\ HasRecord(hist.call.approvalId)
  /\ Len(events) > 0

(***************************************************************************)
(* C26: the timestamp of a record is the chain's time of the block that    *)
(* stored it, and timestamps follow the order of the array: for positions  *)
(* i < j of approvalIds the record of the id at i has a timestamp that is  *)
(* not greater than that of the record of the id at j.                     *)
(***************************************************************************)
C26_TimestampsFollowInsertionOrder ==
  \A i, j \in 1..Len(approvalIds) :
     i < j => approvals[approvalIds[i]].timestamp
                <= approvals[approvalIds[j]].timestamp

(***************************************************************************)
(* C27: a successful recordSyncApproval or deactivateApproval returns a    *)
(* transactionHash that differs from that of the successful write before   *)
(* it and a blockNumber greater than that write's, in live mode and in     *)
(* mock mode.                                                              *)
(***************************************************************************)
C27_ReceiptsUniqueAndIncreasing ==
  [][(/\ result.op \in WriteOps /\ result.success
      /\ result'.op \in WriteOps /\ result'.success
      /\ <<result, hist>>' # <<result, hist>>)
       => /\ result'.transactionHash # result.transactionHash
          /\ result'.blockNumber > result.blockNumber]_vars

(***************************************************************************)
(* C29: recordSyncApproval, deactivateApproval, getApproval,               *)
(* getTotalApprovals and getApprovalIdByIndex report a failure in the      *)
(* value they return; none of them throws to its caller.                   *)
(***************************************************************************)
C29_FailuresAreReturnedNotThrown ==
  result.op \in WriteOps \cup ReadOps => ~result.threw

(***************************************************************************)
(* C31: GET /approval/:approvalId asks for the API key as                  *)
(* POST /record-approval and GET /status do: a request to one of the three *)
(* without the valid X-API-Key is answered 401 by apiKeyAuth and does not  *)
(* reach the route's handler, so no controller function is called for it.  *)
(***************************************************************************)
C31_ApprovalRouteNeedsApiKey ==
  (/\ response.path \in {"record", "approval", "status"}
   /\ response.apiKey # ValidApiKey)
    => /\ response.status = 401
       /\ response.route = "apiKeyAuth"
       /\ response.store = BlankResult

(***************************************************************************)
(* C32: a POST /requestAction that passes the middleware of the route and  *)
(* carries a body the schema accepts is answered by approveSyncRequest     *)
(* with 200, success and status approved or rejected.                      *)
(***************************************************************************)
C32_AuthenticatedRequestActionSucceeds ==
  (/\ response.path = "requestAction"
   /\ response.apiKey = ValidApiKey
   /\ response.action \in Actions)
    => /\ response.route = "approveSyncRequest"
       /\ response.status = 200
       /\ response.success
       /\ response.requestStatus = UpdatedStatus(response.action)

(***************************************************************************)
(* C33: approveSyncRequest calls the blockchain controller only for        *)
(* 'approve' and only once the database update is done, and an approval    *)
(* whose blockchain write failed or was skipped because the integration is *)
(* disabled is still answered 200 with status approved and                *)
(* blockchain.recorded false.                                              *)
(***************************************************************************)
C33_ApprovalSurvivesFailedWrite ==
  /\ response.attempted => (response.action = "approve" /\ response.dbUpdated)
  /\ (/\ response.path = "requestAction"
      /\ response.action = "approve"
      /\ response.user # Undefined \/ response.apiKey = ValidApiKey
      /\ ~response.mined
      /\ ~(response.store.success /\ response.store.op = "recordSyncApproval"))
       => /\ response.status = 200
          /\ response.requestStatus = "approved"
          /\ response.recorded = "false"

(***************************************************************************)
(* C34: in mock mode the service is a ledger of its own that starts empty: *)
(* after N successful recordSyncApproval calls with distinct ids,          *)
(* getTotalApprovals returns N and getApprovalIdByIndex returns those ids  *)
(* in the order of the calls, and the list and search routes answer from   *)
(* the same ids instead of refusing the request.                           *)
(***************************************************************************)
C34_MockModeIsAFreshLedger ==
  LET n == Len(hist.inserted)
      ids == {hist.inserted[i] : i \in 1..n}
  IN  (svc.state = "ready" /\ svc.mockMode /\ Distinct(hist.inserted))
      => /\ (result.op = "getTotalApprovals" /\ result.success)
              => result.value = n
         /\ (result.op = "getApprovalIdByIndex" /\ result.success)
              => /\ result.index \in 0..(n - 1)
                 /\ result.id = hist.inserted[result.index + 1]
         /\ response.route \in {"search", "all", "router-all"}
              => /\ response.status # 400
                 /\ response.scanned
                      => \A i \in DOMAIN response.approvals :
                           response.approvals[i].approval_id \in ids

(***************************************************************************)
(* C35: the date filters of the search compare in seconds, the unit of the *)
(* stored timestamp: a search with only fromDate or toDate that the node   *)
(* fails no request of returns a stored record exactly when its timestamp  *)
(* is at or after fromDate and at or before toDate, a timestamp of 0       *)
(* included.                                                               *)
(***************************************************************************)
C35_DateFiltersCompareSeconds ==
  LET q == response.query
      InRange(ts) == /\ q.fromDate # NoDate => ts >= q.fromDate
                     /\ q.toDate # NoDate => ts <= q.toDate
      Returned35(x) == \E k \in DOMAIN response.approvals :
                         response.approvals[k].approval_id = x
  IN  (/\ response.route = "search"
       /\ response.scanned
       /\ NoScanFault(response)
       /\ q.fromDate # NoDate \/ q.toDate # NoDate
       /\ q = [NoFilters EXCEPT !.fromDate = q.fromDate, !.toDate = q.toDate])
      => \A i \in 1..Len(approvalIds) :
           Returned35(approvalIds[i])
             <=> InRange(approvals[approvalIds[i]].timestamp)

(***************************************************************************)
(* C36: with BLOCKCHAIN_ENABLED other than 'true' no controller entry      *)
(* point reaches the service: POST /record-approval answers success with   *)
(* no service result and nothing mined, and GET /approval/:approvalId      *)
(* answers the "disabled" failure of the controller.                       *)
(***************************************************************************)
C36_DisabledNeverReachesService ==
  (/\ response.route \in {"record", "approval"}
   /\ ~response.enabled)
    => /\ ~response.mined
       /\ response.route = "record"
            => /\ response.success
               /\ response.store = BlankResult
       /\ response.route = "approval"
            => /\ ~response.success
               /\ response.store.op = "disabled"

(***************************************************************************)
(* C37: a private key is accepted exactly when it is 64 hexadecimal        *)
(* characters, or '0x' followed by 64 hexadecimal characters; every other  *)
(* key handed to a validator is rejected with the message naming the       *)
(* 64-character hexadecimal format; the accepted key is returned as '0x'   *)
(* and the 64 characters; validating the returned key returns it again;    *)
(* the validator of the service and the one of the script accept the same  *)
(* keys and return the same key.                                           *)
(***************************************************************************)
C37_KeyValidationIsPreciseAndIdempotent ==
  LET key == keyCheck.key
      body == IF StartsWith(key, HexPrefix)
              THEN SubSeq(key, 3, Len(key)) ELSE key
      wellFormed ==
        /\ Len(body) = KeyLength
        /\ \A i \in 1..Len(body) : body[i] \in HexDigits
  IN  /\ keyCheck.service.called =>
           /\ ~keyCheck.service.threw <=> wellFormed
           /\ keyCheck.service.threw =>
                keyCheck.service.error = KeyFormatMessage
           /\ ~keyCheck.service.threw =>
                keyCheck.service.value = HexPrefix \o body
      /\ keyCheck.script.called =>
           /\ keyCheck.script.valid <=> wellFormed
           /\ ~keyCheck.script.valid =>
                keyCheck.script.error = KeyFormatMessage
           /\ keyCheck.script.valid =>
                keyCheck.script.formattedKey = HexPrefix \o body
      /\ keyCheck.again.called =>
           /\ ~keyCheck.again.threw
           /\ keyCheck.again.value = keyCheck.script.formattedKey
      /\ (keyCheck.service.called /\ keyCheck.script.called) =>
           /\ keyCheck.script.valid <=> ~keyCheck.service.threw
           /\ keyCheck.script.formattedKey = keyCheck.service.value
           /\ keyCheck.script.error = keyCheck.service.error

\* a prefixed key both validators accepted, and its formatted key validated
\* again
C37_Witness ==
  /\ StartsWith(keyCheck.key, HexPrefix)
  /\ keyCheck.service.called /\ ~keyCheck.service.threw
  /\ keyCheck.script.called /\ keyCheck.script.valid
  /\ keyCheck.again.called
  /\ Len(keyCheck.again.value) = KeyLength + 2

(***************************************************************************)
(* C38: in the PrintPackSync contract the status of a request only moves   *)
(* forward: Pending to Approved or Rejected, Approved to Completed (an     *)
(* Excel request, by its recorded owner); no transaction makes a request   *)
(* that has left Pending pending again, nor changes its requester, its     *)
(* createdAt or an approvedAt it has.                                      *)
(***************************************************************************)
C38_RequestStatusOnlyMovesForward ==
  [][\A r \in SyncRequestIds :
       LET old == printPackSync.syncRequests[r]
           new == printPackSync'.syncRequests[r]
       IN  /\ new.status # old.status =>
                <<old.status, new.status>> \in
                   {<<"Pending", "Approved">>, <<"Pending", "Rejected">>,
                    <<"Approved", "Completed">>}
           /\ (new.status = "Completed" /\ old.status # "Completed") =>
                /\ old.requestType = Excel
                /\ syncHist'.call.sender = old.owner
           /\ old.status # "Pending" =>
                /\ new.status # "Pending"
                /\ new.requester = old.requester
                /\ new.createdAt = old.createdAt
                /\ old.approvedAt # 0 => new.approvedAt = old.approvedAt
  ]_vars

(***************************************************************************)
(* C39: in the PrintPackSync contract a stored product is changed only by  *)
(* a transaction of the address whose addProduct created it, and no other  *)
(* address ever holds the permission updateProduct asks for: addProduct    *)
(* with the id of a stored product by another address leaves the product   *)
(* as it was and adds nothing to that address's products.                  *)
(***************************************************************************)
C39_OnlyCreatorModifiesProduct ==
  [][\A p \in ProductIds :
       printPackSync.products[p].productId # "" =>
         /\ printPackSync'.products[p] # printPackSync.products[p] =>
              syncHist'.call.sender = syncHist.creator[p]
         /\ \A a \in Addresses :
              HasPermission(printPackSync', a, p) => a = syncHist.creator[p]
  ]_vars

====
